---- MODULE Spec2Model ----
(***************************************************************************)
(* operator-996: the time-series metrics subsystem.                        *)
(*                                                                         *)
(* Two entry points exist in the repository.  The "simple" application     *)
(* (src/index.ts) mounts the SmartFrequency router, whose sample store is  *)
(* the in-memory array `measurements`.  The "platform" application (the    *)
(* main entry point kept in src/types/index.ts) mounts the API router,     *)
(* whose sample store is the table biofeedback_metrics.                    *)
(*                                                                         *)
(* Numbers.  A frequency value is a non-negative multiple of 0.0001 Hz,    *)
(* written as an integer count of such units, or the IEEE value Infinity   *)
(* (what JSON.parse makes of 1e999).  Arithmetic on finite values is exact;*)
(* the binary rounding of doubles is not modelled.                         *)
(*                                                                         *)
(* Strings are sequences of one-character strings, so that trim, parseInt  *)
(* and the comparison of strings are computed character by character.      *)
(***************************************************************************)
EXTENDS Integers, Sequences, FiniteSets, TLC

(***************************************************************************)
(* Bounds of the model.                                                    *)
(***************************************************************************)
MaxMeasurements == 2
MaxTicks == 2
MaxCalls == 2
MaxBatch == 2
MaxKpis == 6
MaxKpiMeasurements == 2
MaxUsers == 5
MaxSignals == 2
MaxConnections == 2
MaxClock == 30

(***************************************************************************)
(* Strings and JSON values.                                                *)
(***************************************************************************)
U1 == <<"u", "1">>
U2 == <<"u", "2">>
EEG == <<"e", "e", "g">>
HR == <<"h", "r">>
EmptyStr == <<>>
Blank == <<" ", " ">>

\* One value of a JSON body or of a parsed query string: its typeof kind,
\* its characters (strings; the name of an object) and its number.
JUndefined == [k |-> "undefined", s |-> <<>>, n |-> 0]
JNull == [k |-> "object-null", s |-> <<>>, n |-> 0]
JStr(s) == [k |-> "string", s |-> s, n |-> 0]
JNum(n) == [k |-> "number", s |-> <<>>, n |-> n]
JObj(name) == [k |-> "object", s |-> name, n |-> 0]

\* JavaScript truthiness: undefined, null, "" and 0 are falsy.
Truthy(j) ==
    CASE j.k = "undefined" -> FALSE
      [] j.k = "object-null" -> FALSE
      [] j.k = "string" -> Len(j.s) > 0
      [] j.k = "number" -> j.n # 0
      [] OTHER -> TRUE

IsWhitespace(c) == c \in {" ", "\t", "\n"}

RECURSIVE TrimStart(_)
TrimStart(s) ==
    IF Len(s) > 0 /\ IsWhitespace(Head(s)) THEN TrimStart(Tail(s)) ELSE s

RECURSIVE TrimEnd(_)
TrimEnd(s) ==
    IF Len(s) > 0 /\ IsWhitespace(s[Len(s)])
    THEN TrimEnd(SubSeq(s, 1, Len(s) - 1))
    ELSE s

\* A variant that removes nothing.
TrimNothing(s) == s

\* String.prototype.trim
Trim(s) == TrimEnd(TrimStart(s))

\* Calling .trim() on a value that is not a string throws a TypeError.
TrimThrows(j) == j.k # "string"

(***************************************************************************)
(* Numbers.                                                                *)
(***************************************************************************)
\* Value units per Hz, and per 0.001 Hz.
UnitsPerHz == 10 * 1000
UnitsPerMilli == UnitsPerHz \div 1000

\* IEEE Infinity, above every finite value of the model.
Infinity == 2 ^ 30

IsFinite(v) == v # Infinity

Add(a, b) == IF a = Infinity \/ b = Infinity THEN Infinity ELSE a + b

\* Math.round of the rational p / q (q > 0): the nearest integer, a half
\* going up.
MathRound(p, q) == (2 * p + q) \div (2 * q)

\* A variant that truncates: Math.floor in place of Math.round.
RoundTo3Floor(sum, count) ==
    IF sum = Infinity
    THEN Infinity
    ELSE ((sum * 1000) \div (count * UnitsPerHz)) * UnitsPerMilli

\* Math.round(avg * 1000) / 1000 for avg = sum / count, in value units.
RoundTo3(sum, count) ==
    IF sum = Infinity
    THEN Infinity
    ELSE MathRound(sum * 1000, count * UnitsPerHz) * UnitsPerMilli

DigitChars == <<"0", "1", "2", "3", "4", "5", "6", "7", "8", "9">>
IsDigit(c) == \E d \in 1..10 : DigitChars[d] = c
DigitValue(c) == (CHOOSE d \in 1..10 : DigitChars[d] = c) - 1

RECURSIVE ParseDigits(_, _)
\* The number written by the leading digits of s, after the digits read so far.
ParseDigits(s, acc) ==
    IF Len(s) > 0 /\ IsDigit(Head(s))
    THEN ParseDigits(Tail(s), acc * 10 + DigitValue(Head(s)))
    ELSE acc

\* parseInt(s, 10): leading whitespace is skipped, a sign is read, then the
\* digits up to the first character that is none; with no digit the result
\* is NaN.
ParseInt(s) ==
    LET t == TrimStart(s)
        neg == Len(t) > 0 /\ Head(t) = "-"
        signed == Len(t) > 0 /\ Head(t) \in {"-", "+"}
        u == IF signed THEN Tail(t) ELSE t
    IN  IF Len(u) = 0 \/ ~IsDigit(Head(u))
        THEN [nan |-> TRUE, n |-> 0]
        ELSE [nan |-> FALSE,
              n |-> IF neg THEN 0 - ParseDigits(u, 0) ELSE ParseDigits(u, 0)]

(***************************************************************************)
(* Time.  Date.now() is a count of milliseconds; toISOString writes it as  *)
(* fixed-width fields, most significant first.  The date part              *)
(* (YYYY-MM-DD) is kept as one field, the day number.                      *)
(***************************************************************************)
MsPerMinute == 60 * 1000
MsPerDay == 24 * 60 * MsPerMinute

ToISOString(ms) ==
    << ms \div MsPerDay,
       (ms % MsPerDay) \div (60 * MsPerMinute),
       (ms % (60 * MsPerMinute)) \div MsPerMinute,
       (ms % MsPerMinute) \div 1000,
       ms % 1000 >>

\* Date.parse of a string written by toISOString.
FromISOString(t) ==
    t[1] * MsPerDay + t[2] * 60 * MsPerMinute + t[3] * MsPerMinute
        + t[4] * 1000 + t[5]

RECURSIVE StrGT(_, _)
\* A variant that compares strictly: > in place of >=.
StrGT(a, b) ==
    IF Len(a) = 0 \/ Len(b) = 0
    THEN Len(a) > Len(b)
    ELSE IF Head(a) # Head(b)
         THEN Head(a) > Head(b)
         ELSE StrGT(Tail(a), Tail(b))

RECURSIVE StrGE(_, _)
\* a >= b on strings made of the same fixed-width fields: decided by the
\* first field that differs.
StrGE(a, b) ==
    IF Len(a) = 0 \/ Len(b) = 0
    THEN Len(a) >= Len(b)
    ELSE IF Head(a) # Head(b)
         THEN Head(a) > Head(b)
         ELSE StrGE(Tail(a), Tail(b))

(***************************************************************************)
(* State.                                                                  *)
(***************************************************************************)
VARIABLES
    app,               \* the entry point that is running: "simple" or "platform"
    enableBiofeedback, \* the feature flag, read from the environment at load
    now,               \* Date.now(), in milliseconds
    ticks,             \* how often the clock has advanced
    measurements,      \* the SmartFrequency router's in-memory store
    biofeedback_metrics, \* the rows of the table, in the order of insertion
    calls,             \* per caller, the POST /api/biofeedback in progress
    uuids,             \* how many identifiers uuidv4 has issued
    accepted,          \* how many ingest requests were answered 201
    biofeedback_5min_avg, \* the rows materialized for the continuous aggregate
    kpis,              \* the ids of the rows of the table kpis
    kpi_measurements,  \* the rows of the table kpi_measurements
    kpiIssued,         \* how many ids uuid_generate_v4() has given to kpis
    proc,              \* the platform's process: server, pool, Redis, exit
    req,               \* the request served at this instant, if any
    resp               \* the response to it

vars ==
    <<app, enableBiofeedback, now, ticks, measurements, biofeedback_metrics,
      calls, uuids, accepted, biofeedback_5min_avg, kpis, kpi_measurements,
      kpiIssued, proc, req, resp>>

\* The KPI tables, which no request handler writes, and the process.
kpiVars == <<kpis, kpi_measurements, kpiIssued>>
procVars == <<proc>>

\* What the simple application never touches, and what the platform never
\* touches.
platformVars == <<biofeedback_metrics, calls, uuids>>
simpleVars == <<measurements>>

\* What only the jobs of the database write.
jobVars == <<biofeedback_5min_avg>>

\* The clients of the platform that issue requests independently.
Callers == {"c1", "c2"}
Idle == [pc |-> "idle"]

\* The values process.env.ENABLE_BIOFEEDBACK is given: unset, or a text.
EnvValues == {"", "true", "false", "TRUE", "yes"}

ToLowerCase(v) == IF v = "TRUE" THEN "true" ELSE v

\* The simple application's flag: process.env.ENABLE_BIOFEEDBACK !== 'false'.
SimpleFeatureFlag(env) == env # "false"

\* The platform's flag: getEnvBoolean('ENABLE_BIOFEEDBACK', true).
getEnvBoolean(env, defaultValue) ==
    IF env = "" THEN defaultValue ELSE ToLowerCase(env) = "true"

\* The clock when the process starts.
StartTime == MsPerDay

\* The steps by which the clock advances: a millisecond, a minute.
ClockSteps == {1, MsPerMinute}

\* The rows the schema script inserts into kpis, by the ids they are given.
SampleKpis == 1..5

\* The process once startServer has run: the server listens, the pool and
\* the Redis client are open, no signal has arrived.
ProcessStarted ==
    [server |-> "listening", connections |-> 0, pool |-> "open",
     redis |-> "open", signals |-> 0, callbacks |-> <<>>, timers |-> {},
     clock |-> 0, exit |-> "none", log |-> "Server started successfully"]

NoRequest == [op |-> "none"]
NoResponse == [status |-> 0, kind |-> "none", accessed |-> FALSE]

Init ==
    /\ app \in {"simple", "platform"}
    /\ \E env \in EnvValues :
           enableBiofeedback =
               IF app = "simple"
               THEN SimpleFeatureFlag(env)
               ELSE getEnvBoolean(env, TRUE)
    /\ now = StartTime
    /\ ticks = 0
    /\ measurements = <<>>
    /\ biofeedback_metrics = <<>>
    /\ calls = [c \in Callers |-> Idle]
    /\ uuids = 0
    /\ accepted = 0
    /\ biofeedback_5min_avg = <<>>
    /\ kpis = SampleKpis
    /\ kpi_measurements = <<>>
    /\ kpiIssued = Cardinality(SampleKpis)
    /\ proc = ProcessStarted
    /\ req = NoRequest
    /\ resp = NoResponse

\* The platform after construction.
InitJobs == Init /\ app = "platform"

\* Time passes; the exchange of request and response that was on show is
\* over.
Tick ==
    /\ ticks < MaxTicks
    /\ \E d \in ClockSteps : now' = now + d
    /\ ticks' = ticks + 1
    /\ req' = NoRequest
    /\ resp' = NoResponse
    /\ UNCHANGED <<app, enableBiofeedback, kpiVars, procVars, jobVars, measurements, platformVars,
                   accepted>>

(***************************************************************************)
(* The SmartFrequency router (src/routes/smartFrequency.ts) as mounted by  *)
(* src/index.ts.                                                           *)
(***************************************************************************)
M1 == <<"m", "1">>
EmptyObject == JObj(<<"{", "}">>)

\* The 503 handler mounted in place of the router when the feature is off.
FeatureDisabled ==
    [status |-> 503, kind |-> "error",
     error |-> "SmartFrequency feature is disabled", accessed |-> FALSE]

\* The application's error handler: a handler that throws answers 500.
InternalServerError ==
    [status |-> 500, kind |-> "error", error |-> "Internal Server Error",
     accessed |-> FALSE]

BadRequest(message) ==
    [status |-> 400, kind |-> "error", error |-> message, accessed |-> FALSE]

\* A variant that reports no measurements.
StatusResponseNoCount ==
    [status |-> 200, kind |-> "status", feature |-> "SmartFrequency",
     measurementCount |-> 0, accessed |-> TRUE]

\* GET /smart-frequency/status
StatusResponse ==
    [status |-> 200, kind |-> "status", feature |-> "SmartFrequency",
     measurementCount |-> Len(measurements), accessed |-> TRUE]

\* GET /smart-frequency/measurements: the filter predicate.
ListMatches(m, userId, signalType) ==
    /\ userId.k = "undefined" \/ m.userId = userId.s
    /\ signalType.k = "undefined" \/ m.signalType = signalType.s

ListResponse(q) ==
    LET filtered ==
            SelectSeq(measurements,
                      LAMBDA m : ListMatches(m, q.userId, q.signalType))
    IN  [status |-> 200, kind |-> "list", measurements |-> filtered,
         total |-> Len(filtered), accessed |-> TRUE]

\* A variant that tests !frequencyHz in place of frequencyHz === undefined.
PostOutcomeFalsyFrequency(b) ==
    IF ~Truthy(b.userId) THEN "required"
    ELSE IF TrimThrows(b.userId) THEN "throws"
    ELSE IF Len(Trim(b.userId.s)) = 0 THEN "required"
    ELSE IF ~Truthy(b.frequencyHz) THEN "required"
    ELSE IF ~Truthy(b.signalType) THEN "required"
    ELSE IF TrimThrows(b.signalType) THEN "throws"
    ELSE IF Len(Trim(b.signalType.s)) = 0 THEN "required"
    ELSE IF b.frequencyHz.k # "number" \/ b.frequencyHz.n < 0 THEN "negative"
    ELSE "ok"

\* POST /smart-frequency/measurements: the outcome of the two checks,
\* evaluated left to right as the || chain is.
PostOutcome(b) ==
    IF ~Truthy(b.userId) THEN "required"
    ELSE IF TrimThrows(b.userId) THEN "throws"
    ELSE IF Len(Trim(b.userId.s)) = 0 THEN "required"
    ELSE IF b.frequencyHz.k = "undefined" THEN "required"
    ELSE IF ~Truthy(b.signalType) THEN "required"
    ELSE IF TrimThrows(b.signalType) THEN "throws"
    ELSE IF Len(Trim(b.signalType.s)) = 0 THEN "required"
    ELSE IF b.frequencyHz.k # "number" \/ b.frequencyHz.n < 0 THEN "negative"
    ELSE "ok"

\* A variant that drops the metadata of the body.
NewMeasurementNoMetadata(b) ==
    [userId |-> b.userId.s,
     frequencyHz |-> b.frequencyHz.n,
     signalType |-> b.signalType.s,
     timestamp |-> ToISOString(now),
     metadata |-> EmptyObject]

\* The measurement the handler builds from an accepted body.
NewMeasurement(b) ==
    [userId |-> b.userId.s,
     frequencyHz |-> b.frequencyHz.n,
     signalType |-> b.signalType.s,
     timestamp |-> ToISOString(now),
     metadata |-> IF b.metadata.k \in {"undefined", "object-null"}
                  THEN EmptyObject
                  ELSE b.metadata]

PostResponse(b) ==
    CASE PostOutcome(b) = "required" ->
             BadRequest("userId, frequencyHz and signalType are required")
      [] PostOutcome(b) = "negative" ->
             BadRequest("frequencyHz must be a non-negative number")
      [] PostOutcome(b) = "throws" -> InternalServerError
      [] OTHER ->
             [status |-> 201, kind |-> "created",
              measurement |-> NewMeasurement(b), accessed |-> TRUE]

(***************************************************************************)
(* GET /smart-frequency/analytics                                          *)
(***************************************************************************)
MaxWindowMinutes == 1440
DefaultWindow == <<"6", "0">>

\* (req.query.signalType as string) || null
AnalyticsSignalType(q) == IF Truthy(q.signalType) THEN q.signalType ELSE JNull

\* parseInt((req.query.windowMinutes as string) || '60', 10)
AnalyticsWindow(q) ==
    ParseInt(IF Truthy(q.windowMinutes) THEN q.windowMinutes.s ELSE DefaultWindow)

\* isNaN(windowMinutes) || windowMinutes <= 0 || windowMinutes > 1440
WindowRejected(w) == w.nan \/ w.n <= 0 \/ w.n > MaxWindowMinutes

\* new Date(Date.now() - windowMinutes * 60 * 1000).toISOString()
Cutoff(windowMinutes) == ToISOString(now - windowMinutes * MsPerMinute)

\* A variant that forgets the signal-type filter.
InWindowAnyType(m, cutoff, signalType) == StrGE(m.timestamp, cutoff)

InWindow(m, cutoff, signalType) ==
    /\ StrGE(m.timestamp, cutoff)
    /\ signalType.k = "object-null" \/ m.signalType = signalType.s

RECURSIVE SumOf(_)
\* frequencies.reduce((a, b) => a + b, 0)
SumOf(fs) == IF Len(fs) = 0 THEN 0 ELSE Add(Head(fs), SumOf(Tail(fs)))

RECURSIVE MinOf(_)
\* Math.min(...frequencies), of a non-empty list
MinOf(fs) ==
    IF Len(fs) = 1 THEN Head(fs)
    ELSE IF Head(fs) <= MinOf(Tail(fs)) THEN Head(fs) ELSE MinOf(Tail(fs))

RECURSIVE MaxOf(_)
\* Math.max(...frequencies), of a non-empty list
MaxOf(fs) ==
    IF Len(fs) = 1 THEN Head(fs)
    ELSE IF Head(fs) >= MaxOf(Tail(fs)) THEN Head(fs) ELSE MaxOf(Tail(fs))

\* signalType ?? 'all'
SignalTypeOrAll(signalType) ==
    IF signalType.k = "object-null" THEN <<"a", "l", "l">> ELSE signalType.s

AnalyticsResponse(q) ==
    LET signalType == AnalyticsSignalType(q)
        w == AnalyticsWindow(q)
        filtered ==
            SelectSeq(measurements,
                      LAMBDA m : InWindow(m, Cutoff(w.n), signalType))
        frequencies == [i \in 1..Len(filtered) |-> filtered[i].frequencyHz]
    IN  IF WindowRejected(w)
        THEN BadRequest("windowMinutes must be a number between 1 and 1440")
        ELSE IF Len(filtered) = 0
        THEN [status |-> 200, kind |-> "analytics",
              averageHz |-> 0, minHz |-> 0, maxHz |-> 0, sampleCount |-> 0,
              signalType |-> SignalTypeOrAll(signalType),
              windowMinutes |-> w.n, accessed |-> TRUE]
        ELSE [status |-> 200, kind |-> "analytics",
              averageHz |-> RoundTo3(SumOf(frequencies), Len(frequencies)),
              minHz |-> MinOf(frequencies),
              maxHz |-> MaxOf(frequencies),
              sampleCount |-> Len(filtered),
              signalType |-> SignalTypeOrAll(signalType),
              windowMinutes |-> w.n, accessed |-> TRUE]

(***************************************************************************)
(* The requests the model sends to the simple application.                 *)
(***************************************************************************)
SFRequest(op, userId, frequencyHz, signalType, metadata, windowMinutes) ==
    [op |-> op, userId |-> userId, frequencyHz |-> frequencyHz,
     signalType |-> signalType, metadata |-> metadata,
     windowMinutes |-> windowMinutes, timestamp |-> JUndefined]

PostBody(userId, frequencyHz, signalType, metadata) ==
    SFRequest("ingest", userId, frequencyHz, signalType, metadata, JUndefined)

\* A body that carries a timestamp of its own, as the FrequencyMeasurement
\* it is read as has one.
PostBodyAt(userId, frequencyHz, signalType, metadata, timestamp) ==
    [PostBody(userId, frequencyHz, signalType, metadata)
         EXCEPT !.timestamp = timestamp]

\* Bodies that pass both checks; one is a reading replayed from time 0.
AcceptedBodies ==
    { PostBody(JStr(U1), JNum(0), JStr(EEG), JUndefined),
      PostBodyAt(JStr(U1), JNum(5), JStr(EEG), JObj(M1), JStr(ToISOString(0))),
      PostBody(JStr(U2), JNum(Infinity), JStr(HR), JNull) }

\* Bodies with one field missing, empty, blank, of the wrong type or
\* negative.
RejectedBodies ==
    { PostBody(u, JNum(10), JStr(EEG), JUndefined) :
          u \in {JUndefined, JStr(EmptyStr), JStr(Blank), JNum(7)} }
    \cup
    { PostBody(JStr(U1), f, JStr(EEG), JUndefined) :
          f \in {JUndefined, JStr(<<"1", "0">>), JNum(0 - UnitsPerHz)} }
    \cup
    { PostBody(JStr(U1), JNum(0), t, JUndefined) :
          t \in {JUndefined, JStr(EmptyStr), JStr(Blank), JNum(7)} }

PostBodies == AcceptedBodies \cup RejectedBodies

ListQuery(u, t) == SFRequest("list", u, JUndefined, t, JUndefined, JUndefined)

ListQueries ==
    { ListQuery(JUndefined, JUndefined),
      ListQuery(JStr(U1), JUndefined),
      ListQuery(JUndefined, JStr(HR)),
      ListQuery(JStr(U1), JStr(EEG)),
      ListQuery(JStr(U2), JStr(HR)) }

AnalyticsQuery(t, w) ==
    SFRequest("analytics", JUndefined, JUndefined, t, JUndefined, w)

\* The texts given as windowMinutes, with a signal type or without one.
AnalyticsQueries ==
    { AnalyticsQuery(JUndefined, JUndefined),
      AnalyticsQuery(JUndefined, JStr(<<"1">>)),
      AnalyticsQuery(JStr(EEG), JStr(<<"1">>)),
      AnalyticsQuery(JStr(HR), JStr(<<"1", "4", "4", "0">>)),
      AnalyticsQuery(JStr(EmptyStr), JStr(<<"1", "4", "4", "0">>)),
      AnalyticsQuery(JUndefined, JStr(<<"0">>)),
      AnalyticsQuery(JUndefined, JStr(<<"-", "5">>)),
      AnalyticsQuery(JUndefined, JStr(<<"1", "4", "4", "1">>)),
      AnalyticsQuery(JUndefined, JStr(<<"a", "b", "c">>)),
      AnalyticsQuery(JUndefined, JStr(<<"1", "a", "b", "c">>)),
      AnalyticsQuery(JUndefined, JStr(<<"0", ".", "5">>)),
      AnalyticsQuery(JUndefined, JStr(<<"1", "4", "4", "0", ".", "5">>)) }

StatusQuery ==
    SFRequest("status", JUndefined, JUndefined, JUndefined, JUndefined,
              JUndefined)

(***************************************************************************)
(* The simple application: src/index.ts mounts the router when the feature *)
(* is enabled and the 503 handler otherwise.                               *)
(***************************************************************************)
\* A variant in which the status route is mounted whatever the flag says.
GetStatusAlwaysMounted ==
    /\ app = "simple"
    /\ req' = StatusQuery
    /\ resp' = StatusResponse
    /\ UNCHANGED <<app, enableBiofeedback, kpiVars, procVars, jobVars, now, ticks, measurements,
                   platformVars, accepted>>

GetStatus ==
    /\ app = "simple"
    /\ req' = StatusQuery
    /\ resp' = IF enableBiofeedback THEN StatusResponse ELSE FeatureDisabled
    /\ UNCHANGED <<app, enableBiofeedback, kpiVars, procVars, jobVars, now, ticks, measurements,
                   platformVars, accepted>>

GetMeasurements ==
    /\ app = "simple"
    /\ \E q \in ListQueries :
           /\ req' = q
           /\ resp' = IF enableBiofeedback
                      THEN ListResponse(q)
                      ELSE FeatureDisabled
    /\ UNCHANGED <<app, enableBiofeedback, kpiVars, procVars, jobVars, now, ticks, measurements,
                   platformVars, accepted>>

\* A variant that pushes the measurement before the second check.
PostMeasurementWritesFirst ==
    /\ app = "simple"
    /\ \E b \in PostBodies :
           /\ enableBiofeedback /\ PostOutcome(b) \in {"ok", "negative"}
                  => Len(measurements) < MaxMeasurements
           /\ req' = b
           /\ resp' = IF enableBiofeedback
                      THEN PostResponse(b)
                      ELSE FeatureDisabled
           /\ measurements' =
                  IF enableBiofeedback /\ PostOutcome(b) \in {"ok", "negative"}
                  THEN Append(measurements, NewMeasurement(b))
                  ELSE measurements
           /\ accepted' =
                  IF enableBiofeedback /\ PostOutcome(b) = "ok"
                  THEN accepted + 1
                  ELSE accepted
    /\ UNCHANGED <<app, enableBiofeedback, kpiVars, procVars, jobVars, now, ticks, platformVars>>

PostMeasurement ==
    /\ app = "simple"
    /\ \E b \in PostBodies :
           /\ enableBiofeedback /\ PostOutcome(b) = "ok"
                  => Len(measurements) < MaxMeasurements
           /\ req' = b
           /\ resp' = IF enableBiofeedback
                      THEN PostResponse(b)
                      ELSE FeatureDisabled
           /\ measurements' =
                  IF enableBiofeedback /\ PostOutcome(b) = "ok"
                  THEN Append(measurements, NewMeasurement(b))
                  ELSE measurements
           /\ accepted' =
                  IF enableBiofeedback /\ PostOutcome(b) = "ok"
                  THEN accepted + 1
                  ELSE accepted
    /\ UNCHANGED <<app, enableBiofeedback, kpiVars, procVars, jobVars, now, ticks, platformVars>>

GetAnalytics ==
    /\ app = "simple"
    /\ \E q \in AnalyticsQueries :
           /\ req' = q
           /\ resp' = IF enableBiofeedback
                      THEN AnalyticsResponse(q)
                      ELSE FeatureDisabled
    /\ UNCHANGED <<app, enableBiofeedback, kpiVars, procVars, jobVars, now, ticks, measurements,
                   platformVars, accepted>>

(***************************************************************************)
(* The platform: authenticate (middleware/auth).  The Authorization header *)
(* is given as the parts authHeader.split(' ') yields; no header is the    *)
(* empty sequence.                                                         *)
(***************************************************************************)
\* jwt.verify(token, secret): the payload of a token signed with the secret
\* and not expired; otherwise it throws.
JwtVerify(token) ==
    CASE token = "token-u1" -> [outcome |-> "payload", userId |-> U1, role |-> "user"]
      [] token = "token-u2" -> [outcome |-> "payload", userId |-> U2, role |-> "admin"]
      [] token = "token-old" -> [outcome |-> "TokenExpiredError", userId |-> <<>>, role |-> ""]
      [] OTHER -> [outcome |-> "JsonWebTokenError", userId |-> <<>>, role |-> ""]

ApiError(statusCode, error, message) ==
    [status |-> statusCode, kind |-> "error", error |-> error,
     message |-> message, accessed |-> FALSE]

\* The outcome of authenticate: "next" with req.user set, or the response
\* it sends itself.
Authenticate(parts) ==
    IF Len(parts) = 0
    THEN [next |-> FALSE, user |-> JwtVerify(""),
          response |-> ApiError(401, "Unauthorized", "Missing authorization header")]
    ELSE IF Len(parts) # 2 \/ parts[1] # "Bearer"
    THEN [next |-> FALSE, user |-> JwtVerify(""),
          response |-> ApiError(401, "Unauthorized", "Invalid authorization format")]
    ELSE IF parts[2] = ""
    THEN [next |-> FALSE, user |-> JwtVerify(""),
          response |-> ApiError(401, "Unauthorized", "Missing token")]
    ELSE IF JwtVerify(parts[2]).outcome = "TokenExpiredError"
    THEN [next |-> FALSE, user |-> JwtVerify(parts[2]),
          response |-> ApiError(401, "Unauthorized", "Token expired")]
    ELSE IF JwtVerify(parts[2]).outcome = "JsonWebTokenError"
    THEN [next |-> FALSE, user |-> JwtVerify(parts[2]),
          response |-> ApiError(401, "Unauthorized", "Invalid token")]
    ELSE [next |-> TRUE, user |-> JwtVerify(parts[2]),
          response |-> NoResponse]

(***************************************************************************)
(* The table biofeedback_metrics and INSERT into it.                       *)
(***************************************************************************)
\* A value cast to NUMERIC(10,2): rounded to two decimals, a half going
\* away from zero.
UnitsPerCent == UnitsPerHz \div 100

Numeric10_2(v) ==
    IF v >= 0
    THEN ((2 * v + UnitsPerCent) \div (2 * UnitsPerCent)) * UnitsPerCent
    ELSE 0 - (((2 * (0 - v) + UnitsPerCent) \div (2 * UnitsPerCent)) * UnitsPerCent)

\* Why the INSERT of a row fails, or "none": value is NOT NULL and must fit
\* NUMERIC(10,2); (id, timestamp) is the primary key.
InsertError(table, row) ==
    IF row.value.k # "number" THEN "not-null or invalid input"
    ELSE IF ~IsFinite(row.value.n) THEN "numeric field overflow"
    ELSE IF \E i \in 1..Len(table) :
                table[i].id = row.id /\ table[i].timestamp = row.timestamp
    THEN "unique violation"
    ELSE "none"

\* A query that fails throws; the application's error handler answers 500.
QueryFailed ==
    [status |-> 500, kind |-> "error", error |-> "Internal Server Error",
     message |-> "query failed", accessed |-> TRUE]

\* The row as stored, which RETURNING * hands back.
StoredRow(row) ==
    [id |-> row.id, user_id |-> row.user_id, metric_type |-> row.metric_type,
     value |-> Numeric10_2(row.value.n), timestamp |-> row.timestamp]

(***************************************************************************)
(* createMetric (services/biofeedback) and POST /api/biofeedback.          *)
(***************************************************************************)
\* A variant that hands out the same identifier every time.
Uuidv4Repeats(issued) == 1

\* uuidv4(): 122 random bits, taken to differ from every identifier issued
\* before; issued is the number of identifiers issued so far.
Uuidv4(issued) == issued + 1

HeartRate == <<"h", "e", "a", "r", "t", "_", "r", "a", "t", "e">>
StressLevel == <<"s", "t", "r", "e", "s", "s", "_", "l", "e", "v", "e", "l">>
FocusScore == <<"f", "o", "c", "u", "s", "_", "s", "c", "o", "r", "e">>
validTypes == {HeartRate, StressLevel, FocusScore}

ApiPost(authorization, metricType, value) ==
    [op |-> "api.ingest", authorization |-> authorization,
     metricType |-> metricType, value |-> value]

\* What the handler does with a request before it calls createMetric:
\* the response it sends, or "create".
ApiPostOutcome(r) ==
    IF ~Authenticate(r.authorization).next
    THEN [create |-> FALSE, response |-> Authenticate(r.authorization).response]
    ELSE IF ~enableBiofeedback
    THEN [create |-> FALSE,
          response |-> ApiError(503, "Service Unavailable", "Biofeedback feature disabled")]
    ELSE IF ~Truthy(r.metricType) \/ r.value.k = "undefined"
    THEN [create |-> FALSE,
          response |-> ApiError(400, "Bad Request", "metricType and value are required")]
    ELSE IF r.metricType.k # "string" \/ r.metricType.s \notin validTypes
    THEN [create |-> FALSE,
          response |-> ApiError(400, "Bad Request", "Invalid metricType")]
    ELSE [create |-> TRUE, response |-> NoResponse]

\* The parameters createMetric binds to its INSERT.
NewRow(r, issued) ==
    [id |-> Uuidv4(issued),
     user_id |-> Authenticate(r.authorization).user.userId,
     metric_type |-> r.metricType.s,
     value |-> r.value,
     timestamp |-> now]

ApiPosts ==
    { ApiPost(<<"Bearer", "token-u1">>, JStr(HeartRate), JNum(725000)),
      ApiPost(<<"Bearer", "token-u2">>, JStr(FocusScore), JNum(4)),
      ApiPost(<<"Bearer", "token-u1">>, JStr(HeartRate), JNum(Infinity)),
      ApiPost(<<"Bearer", "token-u1">>, JUndefined, JNum(725000)),
      ApiPost(<<"Bearer", "token-u1">>, JStr(EEG), JNum(725000)),
      ApiPost(<<>>, JStr(HeartRate), JNum(725000)) }

\* The handler runs up to its first await: it answers at once, or calls
\* createMetric, which draws the id and the timestamp and sends the INSERT.
ApiPostBiofeedback(c) ==
    /\ app = "platform"
    /\ calls[c].pc = "idle"
    /\ \E r \in ApiPosts :
           IF ApiPostOutcome(r).create
           THEN /\ uuids < MaxCalls
                /\ calls' = [calls EXCEPT ![c] =
                                [pc |-> "query", request |-> r,
                                 row |-> NewRow(r, uuids)]]
                /\ uuids' = uuids + 1
                /\ UNCHANGED <<req, resp>>
           ELSE /\ req' = r
                /\ resp' = ApiPostOutcome(r).response
                /\ UNCHANGED <<calls, uuids>>
    /\ UNCHANGED <<app, enableBiofeedback, kpiVars, procVars, jobVars, now, ticks, simpleVars,
                   biofeedback_metrics, accepted>>

\* A variant that sends the INSERT again when it has failed.
CreateMetricRetries(c) ==
    /\ app = "platform"
    /\ calls[c].pc = "query"
    /\ req' = calls[c].request
    /\ \E available \in BOOLEAN :
           IF available /\ InsertError(biofeedback_metrics, calls[c].row) = "none"
           THEN /\ biofeedback_metrics' =
                       Append(biofeedback_metrics, StoredRow(calls[c].row))
                /\ resp' = [status |-> 201, kind |-> "created",
                            metric |-> StoredRow(calls[c].row),
                            accessed |-> TRUE]
                /\ accepted' = accepted + 1
                /\ calls' = [calls EXCEPT ![c] = Idle]
           ELSE /\ resp' = QueryFailed
                /\ UNCHANGED <<biofeedback_metrics, accepted, calls>>
    /\ UNCHANGED <<app, enableBiofeedback, kpiVars, procVars, jobVars, now, ticks, simpleVars, uuids>>

\* The database executes the INSERT of a caller and the handler resumes
\* after the await with 201 and the stored row; or the query fails (the
\* store is unreachable, or the row is refused) and the error goes to the
\* application's error handler, which answers 500.
CreateMetricReturns(c) ==
    /\ app = "platform"
    /\ calls[c].pc = "query"
    /\ req' = calls[c].request
    /\ \E available \in BOOLEAN :
           IF available /\ InsertError(biofeedback_metrics, calls[c].row) = "none"
           THEN /\ biofeedback_metrics' =
                       Append(biofeedback_metrics, StoredRow(calls[c].row))
                /\ resp' = [status |-> 201, kind |-> "created",
                            metric |-> StoredRow(calls[c].row),
                            accessed |-> TRUE]
                /\ accepted' = accepted + 1
           ELSE /\ resp' = QueryFailed
                /\ UNCHANGED <<biofeedback_metrics, accepted>>
    /\ calls' = [calls EXCEPT ![c] = Idle]
    /\ UNCHANGED <<app, enableBiofeedback, kpiVars, procVars, jobVars, now, ticks, simpleVars, uuids>>

(***************************************************************************)
(* GET /api/biofeedback (getMetricsByUser) and GET /api/biofeedback/stats  *)
(* (getMetricStats).  A read is one step: the response is decided by the   *)
(* table at the moment the database runs the SELECT.                       *)
(***************************************************************************)
Min2(a, b) == IF a < b THEN a ELSE b
Max2(a, b) == IF a > b THEN a ELSE b

\* getPaginationParams: the limit of a page, parseInt(limit) || 20 kept
\* within 1..100.  An absent parameter parses to NaN.
PageLimit(limit) ==
    LET parsed == IF limit.k = "string" THEN ParseInt(limit.s)
                  ELSE [nan |-> TRUE, n |-> 0]
        given == IF parsed.nan \/ parsed.n = 0 THEN 20 ELSE parsed.n
    IN  Min2(100, Max2(1, given))

\* WHERE user_id = $1 [AND metric_type = $2]: the positions of the rows
\* selected; the type is a condition only when it is truthy.
MetricsOfUser(table, userId, metricType) ==
    { i \in 1..Len(table) :
        /\ table[i].user_id = userId
        /\ Truthy(metricType) => table[i].metric_type = metricType.s }

\* ORDER BY timestamp DESC: every order of the selected rows in which no
\* row comes before a later one; rows of one timestamp come in any order.
OrderedByTimestampDesc(table, selected) ==
    { p \in [1..Cardinality(selected) -> selected] :
        /\ \A a, b \in 1..Cardinality(selected) : a # b => p[a] # p[b]
        /\ \A a, b \in 1..Cardinality(selected) :
               a < b => table[p[a]].timestamp >= table[p[b]].timestamp }

\* LIMIT n applied to the rows in the order p.
LimitRows(table, p, n) ==
    [k \in 1..Min2(n, Len(p)) |-> table[p[k]]]

ApiList(authorization, type, limit) ==
    [op |-> "api.list", authorization |-> authorization, type |-> type,
     limit |-> limit]

ApiLists ==
    { ApiList(<<"Bearer", "token-u1">>, JUndefined, JUndefined),
      ApiList(<<"Bearer", "token-u1">>, JStr(HeartRate), JStr(<<"1">>)),
      ApiList(<<>>, JUndefined, JUndefined) }

ApiGetBiofeedback ==
    /\ app = "platform"
    /\ \E r \in ApiLists :
           /\ req' = r
           /\ IF ~Authenticate(r.authorization).next
              THEN resp' = Authenticate(r.authorization).response
              ELSE IF ~enableBiofeedback
              THEN resp' = ApiError(503, "Service Unavailable",
                                    "Biofeedback feature disabled")
              ELSE \E available \in BOOLEAN :
                       IF available
                       THEN \E p \in OrderedByTimestampDesc(
                                        biofeedback_metrics,
                                        MetricsOfUser(
                                            biofeedback_metrics,
                                            Authenticate(r.authorization).user.userId,
                                            r.type)) :
                                resp' = [status |-> 200, kind |-> "data",
                                         data |-> LimitRows(biofeedback_metrics, p,
                                                            PageLimit(r.limit)),
                                         accessed |-> TRUE]
                       ELSE resp' = QueryFailed
    /\ UNCHANGED <<app, enableBiofeedback, kpiVars, procVars, jobVars, now, ticks, simpleVars,
                   platformVars, accepted>>

\* intervalMap: the minutes of a time range; 0 for a range it does not name.
RangeMinutes(range) ==
    CASE range = "1h" -> 60
      [] range = "24h" -> 24 * 60
      [] range = "7d" -> 7 * 24 * 60
      [] range = "30d" -> 30 * 24 * 60
      [] OTHER -> 0

\* WHERE user_id = $1 AND metric_type = $2 AND timestamp > NOW() - INTERVAL:
\* the positions of the rows selected.  The interval is a whole number of
\* minutes, so the age of a row is compared in whole minutes.
StatsRows(table, userId, metricType, range) ==
    { i \in 1..Len(table) :
        /\ table[i].user_id = userId
        /\ table[i].metric_type = metricType
        /\ (now - table[i].timestamp) \div MsPerMinute < RangeMinutes(range) }

RECURSIVE ISqrtBetween(_, _, _)
\* The integer r with r * r <= q < (r + 1) * (r + 1), given lo * lo <= q
\* < hi * hi.
ISqrtBetween(q, lo, hi) ==
    IF hi - lo <= 1
    THEN lo
    ELSE LET mid == (lo + hi) \div 2
         IN  IF mid * mid <= q
             THEN ISqrtBetween(q, mid, hi)
             ELSE ISqrtBetween(q, lo, mid)

RECURSIVE SumCents(_, _)
SumCents(table, S) ==
    IF S = {}
    THEN 0
    ELSE LET i == CHOOSE x \in S : TRUE
         IN  table[i].value \div UnitsPerCent + SumCents(table, S \ {i})

RECURSIVE SumSquaredCents(_, _)
SumSquaredCents(table, S) ==
    IF S = {}
    THEN 0
    ELSE LET i == CHOOSE x \in S : TRUE
             c == table[i].value \div UnitsPerCent
         IN  c * c + SumSquaredCents(table, S \ {i})

\* The row of aggregates over the selected rows, each cast to numeric(10,2):
\* AVG, MIN, MAX and STDDEV are NULL over no rows, and STDDEV (the sample
\* deviation) is NULL over one row.
StatsRow(table, S) ==
    LET n == Cardinality(S)
        sum == SumCents(table, S)
        spread == n * SumSquaredCents(table, S) - sum * sum
    IN  [count |-> n,
         avg |-> IF n = 0 THEN JNull
                 ELSE JNum(MathRound(sum, n) * UnitsPerCent),
         min |-> IF n = 0 THEN JNull
                 ELSE JNum(CHOOSE v \in {table[i].value : i \in S} :
                               \A i \in S : v <= table[i].value),
         max |-> IF n = 0 THEN JNull
                 ELSE JNum(CHOOSE v \in {table[i].value : i \in S} :
                               \A i \in S : v >= table[i].value),
         stddev |-> IF n < 2 THEN JNull
                    ELSE JNum(((ISqrtBetween((4 * spread) \div (n * (n - 1)),
                                             0, 46340) + 1) \div 2)
                              * UnitsPerCent)]

ApiStats(authorization, type, range) ==
    [op |-> "api.stats", authorization |-> authorization, type |-> type,
     range |-> range]

ApiStatsQueries ==
    { ApiStats(<<"Bearer", "token-u1">>, JStr(HeartRate), JUndefined),
      ApiStats(<<"Bearer", "token-u1">>, JUndefined, JUndefined),
      ApiStats(<<>>, JStr(HeartRate), JUndefined) }

\* req.query['range'] || '24h'
StatsRange(range) == IF Truthy(range) THEN range.s ELSE "24h"

ApiGetBiofeedbackStats ==
    /\ app = "platform"
    /\ \E r \in ApiStatsQueries :
           /\ req' = r
           /\ IF ~Authenticate(r.authorization).next
              THEN resp' = Authenticate(r.authorization).response
              ELSE IF ~enableBiofeedback
              THEN resp' = ApiError(503, "Service Unavailable",
                                    "Biofeedback feature disabled")
              ELSE IF ~Truthy(r.type)
              THEN resp' = ApiError(400, "Bad Request",
                                    "type parameter is required")
              ELSE \E available \in BOOLEAN :
                       IF available /\ RangeMinutes(StatsRange(r.range)) > 0
                       THEN resp' = [status |-> 200, kind |-> "stats",
                                     stats |-> StatsRow(
                                         biofeedback_metrics,
                                         StatsRows(
                                             biofeedback_metrics,
                                             Authenticate(r.authorization).user.userId,
                                             r.type.s,
                                             StatsRange(r.range))),
                                     accessed |-> TRUE]
                       ELSE resp' = QueryFailed
    /\ UNCHANGED <<app, enableBiofeedback, kpiVars, procVars, jobVars, now, ticks, simpleVars,
                   platformVars, accepted>>

(***************************************************************************)
(* batchCreateMetrics (services/biofeedback): one INSERT of all the rows.  *)
(* The rows are bound and the INSERT runs in one step.                     *)
(***************************************************************************)
BatchSample(userId, metricType, value, timestamp) ==
    [userId |-> userId, metricType |-> metricType, value |-> value,
     timestamp |-> timestamp]

\* A reading taken now, a reading replayed from the start of the process, a
\* reading of another user, and a value NUMERIC(10,2) cannot hold.
SteadySample == BatchSample(U1, HeartRate, JNum(725000), JUndefined)
ReplayedSample == BatchSample(U1, HeartRate, JNum(100), JNum(StartTime))
OtherSample == BatchSample(U2, FocusScore, JNum(4), JUndefined)
OverflowSample == BatchSample(U1, HeartRate, JNum(Infinity), JUndefined)

Batches ==
    { <<>>,
      <<ReplayedSample>>,
      <<OtherSample, OverflowSample>>,
      [k \in 1..MaxBatch |-> SteadySample] }

\* The parameters bound for the k-th sample: uuidv4() and
\* metric.timestamp ?? new Date().
BatchRow(metrics, k, issued) ==
    [id |-> Uuidv4(issued + k - 1),
     user_id |-> metrics[k].userId,
     metric_type |-> metrics[k].metricType,
     value |-> metrics[k].value,
     timestamp |-> IF metrics[k].timestamp.k = "number"
                   THEN metrics[k].timestamp.n
                   ELSE now]

\* A variant that keeps only the rows of the batch.
BatchPrefixOnly(table, metrics, k, issued) ==
    [j \in 1..(k - 1) |-> StoredRow(BatchRow(metrics, j, issued))]

\* The table after the rows before the k-th have been inserted.
BatchPrefix(table, metrics, k, issued) ==
    table \o [j \in 1..(k - 1) |-> StoredRow(BatchRow(metrics, j, issued))]

\* Why the INSERT fails, or "none": one row that is refused fails the
\* statement.
BatchInsertError(table, metrics, issued) ==
    IF \E k \in 1..Len(metrics) :
           InsertError(BatchPrefix(table, metrics, k, issued),
                       BatchRow(metrics, k, issued)) # "none"
    THEN LET k == CHOOSE x \in 1..Len(metrics) :
                      InsertError(BatchPrefix(table, metrics, x, issued),
                                  BatchRow(metrics, x, issued)) # "none"
         IN  InsertError(BatchPrefix(table, metrics, k, issued),
                         BatchRow(metrics, k, issued))
    ELSE "none"

BatchRequest(metrics) == [op |-> "batch", metrics |-> metrics]

BatchReturns(count, accessed) ==
    [status |-> 0, kind |-> "count", count |-> count, accessed |-> accessed]

BatchThrows(cause) ==
    [status |-> 0, kind |-> "throws", cause |-> cause, accessed |-> TRUE]

BatchCreateMetrics ==
    /\ app = "platform"
    /\ \E metrics \in Batches :
           /\ uuids + Len(metrics) <= MaxCalls
           /\ req' = BatchRequest(metrics)
           /\ IF Len(metrics) = 0
              THEN /\ resp' = BatchReturns(0, FALSE)
                   /\ UNCHANGED <<biofeedback_metrics, uuids>>
              ELSE /\ uuids' = uuids + Len(metrics)
                   /\ \E available \in BOOLEAN :
                          IF ~available
                          THEN /\ resp' = BatchThrows("unavailable")
                               /\ UNCHANGED biofeedback_metrics
                          ELSE IF BatchInsertError(biofeedback_metrics, metrics,
                                                   uuids) # "none"
                          THEN /\ resp' = BatchThrows(
                                      BatchInsertError(biofeedback_metrics,
                                                       metrics, uuids))
                               /\ UNCHANGED biofeedback_metrics
                          ELSE /\ biofeedback_metrics' =
                                      BatchPrefix(biofeedback_metrics, metrics,
                                                  Len(metrics) + 1, uuids)
                               /\ resp' = BatchReturns(Len(metrics), TRUE)
    /\ UNCHANGED <<app, enableBiofeedback, kpiVars, procVars, jobVars, simpleVars, now, ticks,
                   calls, accepted>>

(***************************************************************************)
(* The background jobs of the database (the schema script).  They work on *)
(* a scale of minutes to weeks: under the specification of the jobs the    *)
(* clock `now` counts whole minutes, not milliseconds.  The INSERTs copy   *)
(* the clock into the row and read no unit.                                *)
(***************************************************************************)
MinutesPerDay == 24 * 60

\* INTERVAL '30 days' of the retention policy of biofeedback_metrics.
RetentionDays == 30

\* create_hypertable without chunk_time_interval: chunks of 7 days, aligned
\* to the epoch.
ChunkDays == 7

\* time_bucket('5 minutes', timestamp)
BucketMinutes == 5

\* start_offset => INTERVAL '1 hour', end_offset => INTERVAL '5 minutes'
StartOffsetMinutes == 60
EndOffsetMinutes == 5

\* The steps by which the clock advances between the jobs.
JobClockSteps ==
    {BucketMinutes, StartOffsetMinutes, ChunkDays * MinutesPerDay,
     RetentionDays * MinutesPerDay}

JobsTick ==
    /\ app = "platform"
    /\ ticks < MaxTicks
    /\ \E d \in JobClockSteps : now' = now + d
    /\ ticks' = ticks + 1
    /\ req' = NoRequest
    /\ resp' = NoResponse
    /\ UNCHANGED <<app, enableBiofeedback, kpiVars, procVars, jobVars, simpleVars, platformVars,
                   accepted>>

\* The end of the chunk that holds the rows of time ts.
ChunkEnd(ts) == (ts \div (ChunkDays * MinutesPerDay) + 1) * (ChunkDays * MinutesPerDay)

\* A variant that drops a chunk as soon as it begins before the cutoff.
DropChunksByStart(table, olderThan) ==
    SelectSeq(table,
              LAMBDA r : ChunkEnd(r.timestamp) - ChunkDays * MinutesPerDay
                             >= olderThan)

\* drop_chunks(older_than): the retention job removes whole chunks, those
\* that end at or before the cutoff; the rows of the other chunks stay.
DropChunks(table, olderThan) ==
    SelectSeq(table, LAMBDA r : ChunkEnd(r.timestamp) > olderThan)

JobRequest(op) == [op |-> op, at |-> now]

\* What a job leaves on show: whether it ran right after a run of the same
\* job at the same time.
JobResponse(op) ==
    [status |-> 0, kind |-> "job", accessed |-> TRUE,
     again |-> (req = JobRequest(op))]

\* A variant whose cutoff is the present: the horizon is left out.
RetentionPolicyRunAtNow ==
    /\ app = "platform"
    /\ biofeedback_metrics' = DropChunks(biofeedback_metrics, now)
    /\ req' = JobRequest("job.retention")
    /\ resp' = JobResponse("job.retention")
    /\ UNCHANGED <<app, enableBiofeedback, kpiVars, procVars, jobVars, simpleVars, now, ticks,
                   calls, uuids, accepted>>

\* The retention policy of biofeedback_metrics runs.
RetentionPolicyRun ==
    /\ app = "platform"
    /\ biofeedback_metrics' =
           DropChunks(biofeedback_metrics, now - RetentionDays * MinutesPerDay)
    /\ req' = JobRequest("job.retention")
    /\ resp' = JobResponse("job.retention")
    /\ UNCHANGED <<app, enableBiofeedback, kpiVars, procVars, jobVars, simpleVars, now, ticks,
                   calls, uuids, accepted>>

(***************************************************************************)
(* The continuous aggregate biofeedback_5min_avg and its refresh policy.   *)
(***************************************************************************)
\* A variant with buckets of an hour.
TimeBucketHourly(ts) == (ts \div StartOffsetMinutes) * StartOffsetMinutes

\* time_bucket('5 minutes', timestamp): the start of the bucket of ts.
TimeBucket(ts) == (ts \div BucketMinutes) * BucketMinutes

\* A variant without the start of the window: every bucket that has ended
\* is refreshed.
InRefreshWindowNoStart(bucket, at) ==
    bucket + BucketMinutes <= at - EndOffsetMinutes

\* The buckets a run at time `at` refreshes: those that lie wholly within
\* the window from at - start_offset to at - end_offset.
InRefreshWindow(bucket, at) ==
    /\ bucket >= at - StartOffsetMinutes
    /\ bucket + BucketMinutes <= at - EndOffsetMinutes

\* GROUP BY user_id, metric_type, bucket
GroupKey(r) ==
    [user_id |-> r.user_id, metric_type |-> r.metric_type,
     bucket |-> TimeBucket(r.timestamp)]

\* The positions of the rows of a group.
GroupOf(table, key) == { i \in 1..Len(table) : GroupKey(table[i]) = key }

RECURSIVE Gcd(_, _)
Gcd(a, b) == IF b = 0 THEN a ELSE Gcd(b, a % b)

\* AVG(value): the quotient sum / count, kept as a fraction in lowest terms
\* (the database rounds it after sixteen decimal places, which is not
\* modelled).
Average(sum, count) ==
    [num |-> sum \div Gcd(sum, count), den |-> count \div Gcd(sum, count)]

\* The row the view's SELECT yields for a group.
BucketRow(table, key) ==
    LET S == GroupOf(table, key)
    IN  [user_id |-> key.user_id, metric_type |-> key.metric_type,
         bucket |-> key.bucket,
         avg_value |-> Average(SumCents(table, S) * UnitsPerCent,
                               Cardinality(S)),
         min_value |-> CHOOSE v \in {table[i].value : i \in S} :
                           \A i \in S : v <= table[i].value,
         max_value |-> CHOOSE v \in {table[i].value : i \in S} :
                           \A i \in S : v >= table[i].value,
         sample_count |-> Cardinality(S)]

\* The elements of a set in a fixed order.
SetToSeq(S) ==
    CHOOSE f \in [1..Cardinality(S) -> S] :
        \A a, b \in 1..Cardinality(S) : a # b => f[a] # f[b]

\* The groups of the raw rows whose bucket a run at time `at` refreshes.
RefreshedKeys(table, at) ==
    { GroupKey(table[i]) : i \in { j \in 1..Len(table) :
          InRefreshWindow(TimeBucket(table[j].timestamp), at) } }

\* A variant that inserts the recomputed rows without removing the rows
\* materialized before.
MaterializeAppendOnly(aggs, table, at) ==
    aggs \o [k \in 1..Cardinality(RefreshedKeys(table, at)) |->
                 BucketRow(table, SetToSeq(RefreshedKeys(table, at))[k])]

\* A refresh: the materialized rows of the refreshed buckets are deleted and
\* the rows recomputed from the raw table are inserted, in one transaction.
Materialize(aggs, table, at) ==
    SelectSeq(aggs, LAMBDA a : ~InRefreshWindow(a.bucket, at))
    \o [k \in 1..Cardinality(RefreshedKeys(table, at)) |->
            BucketRow(table, SetToSeq(RefreshedKeys(table, at))[k])]

\* The refresh policy of biofeedback_5min_avg runs.
RefreshPolicyRun ==
    /\ app = "platform"
    /\ biofeedback_5min_avg' =
           Materialize(biofeedback_5min_avg, biofeedback_metrics, now)
    /\ req' = JobRequest("job.refresh")
    /\ resp' = JobResponse("job.refresh")
    /\ UNCHANGED <<app, enableBiofeedback, kpiVars, procVars, simpleVars, now, ticks,
                   platformVars, accepted>>

(***************************************************************************)
(* getAggregatedMetrics (services/biofeedback): a SELECT on the continuous *)
(* aggregate.                                                              *)
(***************************************************************************)
\* Calls without a limit, with a limit of one bucket and with one of 500.
SeriesQueries ==
    { [op |-> "series", userId |-> U1, metricType |-> HeartRate,
       limit |-> JUndefined],
      [op |-> "series", userId |-> U1, metricType |-> HeartRate,
       limit |-> JNum(1)],
      [op |-> "series", userId |-> U2, metricType |-> FocusScore,
       limit |-> JNum(500)] }

\* options?.limit ?? 100
SeriesLimit(limit) == IF limit.k = "number" THEN limit.n ELSE 100

\* A variant without the WHERE clause.
BucketsOfAnyUser(aggs, userId, metricType) == 1..Len(aggs)

\* WHERE user_id = $1 AND metric_type = $2
BucketsOfUser(aggs, userId, metricType) ==
    { i \in 1..Len(aggs) :
        aggs[i].user_id = userId /\ aggs[i].metric_type = metricType }

\* ORDER BY bucket DESC
OrderedByBucketDesc(aggs, selected) ==
    { p \in [1..Cardinality(selected) -> selected] :
        /\ \A a, b \in 1..Cardinality(selected) : a # b => p[a] # p[b]
        /\ \A a, b \in 1..Cardinality(selected) :
               a < b => aggs[p[a]].bucket >= aggs[p[b]].bucket }

\* The columns the SELECT names.
SeriesRow(a) ==
    [bucket |-> a.bucket, avgValue |-> a.avg_value, minValue |-> a.min_value,
     maxValue |-> a.max_value, sampleCount |-> a.sample_count]

GetAggregatedMetrics ==
    /\ app = "platform"
    /\ \E q \in SeriesQueries :
           /\ req' = q
           /\ \E available \in BOOLEAN :
                  IF available
                  THEN \E p \in OrderedByBucketDesc(
                                   biofeedback_5min_avg,
                                   BucketsOfUser(biofeedback_5min_avg,
                                                 q.userId, q.metricType)) :
                           resp' =
                               [status |-> 0, kind |-> "series",
                                rows |-> [k \in 1..Min2(SeriesLimit(q.limit),
                                                        Len(p))
                                             |-> SeriesRow(
                                                     biofeedback_5min_avg[p[k]])],
                                limit |-> SeriesLimit(q.limit),
                                accessed |-> TRUE]
                  ELSE resp' = BatchThrows("unavailable")
    /\ UNCHANGED <<app, enableBiofeedback, kpiVars, procVars, jobVars, simpleVars, now, ticks,
                   platformVars, accepted>>

(***************************************************************************)
(* GET /api/users: authenticate, authorize('admin'), getPaginationParams   *)
(* and two SELECTs on the table users, which no handler writes: the number *)
(* of its rows is an input.                                                *)
(***************************************************************************)
\* A variant that lets every role pass.
AuthorizeAnyRole(auth, roles) ==
    IF ~auth.next
    THEN ApiError(401, "Unauthorized", "Authentication required")
    ELSE NoResponse

\* authorize(...roles): the response it sends, or none when it calls next.
\* req.user is set when authenticate has called next.
Authorize(auth, roles) ==
    IF ~auth.next
    THEN ApiError(401, "Unauthorized", "Authentication required")
    ELSE IF auth.user.role \notin roles
    THEN ApiError(403, "Forbidden", "Insufficient permissions")
    ELSE NoResponse

\* getPaginationParams: Math.max(1, parseInt(page) || 1)
PageNumber(page) ==
    LET parsed == IF page.k = "string" THEN ParseInt(page.s)
                  ELSE [nan |-> TRUE, n |-> 0]
        given == IF parsed.nan \/ parsed.n = 0 THEN 1 ELSE parsed.n
    IN  Max2(1, given)

\* A variant that rounds down.
MathFloor(p, q) == p \div q

\* Math.ceil(p / q) for p >= 0 and q > 0.
MathCeil(p, q) == (p + q - 1) \div q

\* Headers: none, no token, another scheme, an empty token, three parts, an
\* expired token, a forged one, a user's and an administrator's; page and
\* limit absent, not numeric, zero, negative, small and above 100.
UsersRequests ==
    { [op |-> "api.users", authorization |-> h, page |-> JUndefined,
       limit |-> JUndefined] :
          h \in { <<>>, <<"Bearer">>, <<"Basic", "token-u2">>, <<"Bearer", "">>,
                  <<"Bearer", "token-u2", "x">>, <<"Bearer", "token-old">>,
                  <<"Bearer", "forged">>, <<"Bearer", "token-u1">> } }
    \cup
    { [op |-> "api.users", authorization |-> <<"Bearer", "token-u2">>,
       page |-> pg, limit |-> lm] :
          pg \in { JUndefined, JStr(<<"a", "b", "c">>), JStr(<<"0">>),
                   JStr(<<"-", "3">>), JStr(<<"2">>), JStr(<<"3">>) },
          lm \in { JUndefined, JStr(<<"a", "b", "c">>), JStr(<<"0">>),
                   JStr(<<"-", "5">>), JStr(<<"2">>),
                   JStr(<<"1", "0", "1">>) } }

\* The handler: the page of users, with data kept as the number of rows the
\* first SELECT returns and offset as the OFFSET it was given.
ApiGetUsers ==
    /\ app = "platform"
    /\ \E r \in UsersRequests, total \in 0..MaxUsers, available \in BOOLEAN :
           /\ req' = r
           /\ resp' =
                  LET auth == Authenticate(r.authorization)
                      page == PageNumber(r.page)
                      limit == PageLimit(r.limit)
                      offset == (page - 1) * limit
                      totalPages == MathCeil(total, limit)
                  IN  IF ~auth.next THEN auth.response
                      ELSE IF Authorize(auth, {"admin"}) # NoResponse
                      THEN Authorize(auth, {"admin"})
                      ELSE IF ~available THEN QueryFailed
                      ELSE [status |-> 200, kind |-> "page",
                            data |-> Max2(0, Min2(limit, total - offset)),
                            offset |-> offset,
                            pagination |->
                                [page |-> page, limit |-> limit,
                                 total |-> total, totalPages |-> totalPages,
                                 hasNext |-> page < totalPages,
                                 hasPrev |-> page > 1],
                            accessed |-> TRUE]
    /\ UNCHANGED <<app, enableBiofeedback, kpiVars, procVars, jobVars,
                   simpleVars, platformVars, now, ticks, accepted>>

SpecUsers == InitJobs /\ [][ApiGetUsers]_vars

(***************************************************************************)
(* The tables kpis and kpi_measurements (the schema script).  No handler   *)
(* writes them; the application's database user is granted INSERT, UPDATE  *)
(* and DELETE, and the statements below are those a client of the database *)
(* may run.                                                                *)
(***************************************************************************)
\* A value of the column kpi_id: NULL or an id.
SqlNull == [null |-> TRUE, id |-> 0]
SqlId(n) == [null |-> FALSE, id |-> n]

\* What the database answers to a statement: the error, or "none" and the
\* number of rows written.
SqlResult(error, rows) ==
    [status |-> 0, kind |-> "sql", error |-> error, rows |-> rows,
     accessed |-> TRUE]

\* INSERT INTO kpis: id defaults to uuid_generate_v4().
InsertKpi ==
    /\ app = "platform"
    /\ kpiIssued < MaxKpis
    /\ kpiIssued' = kpiIssued + 1
    /\ kpis' = kpis \cup {kpiIssued + 1}
    /\ req' = [op |-> "sql.insert_kpi", kpi |-> SqlId(kpiIssued + 1)]
    /\ resp' = SqlResult("none", 1)
    /\ UNCHANGED <<app, enableBiofeedback, jobVars, procVars, simpleVars,
                   platformVars, now, ticks, accepted, kpi_measurements>>

\* kpi_id UUID REFERENCES kpis(id): the column is nullable, and a NULL
\* satisfies the constraint.
ReferencesKpis(table, kpi_id) == kpi_id.null \/ kpi_id.id \in table

\* INSERT INTO kpi_measurements; of a row only the column kpi_id is kept.
InsertKpiMeasurement ==
    /\ app = "platform"
    /\ Len(kpi_measurements) < MaxKpiMeasurements
    /\ \E kpi_id \in {SqlNull} \cup { SqlId(n) : n \in 1..MaxKpis } :
           /\ req' = [op |-> "sql.insert_measurement", kpi |-> kpi_id]
           /\ IF ReferencesKpis(kpis, kpi_id)
              THEN /\ kpi_measurements' =
                          Append(kpi_measurements,
                                 [kpi_id |-> kpi_id])
                   /\ resp' = SqlResult("none", 1)
              ELSE /\ resp' = SqlResult("foreign key violation", 0)
                   /\ UNCHANGED kpi_measurements
    /\ UNCHANGED <<app, enableBiofeedback, jobVars, procVars, simpleVars,
                   platformVars, now, ticks, accepted, kpis, kpiIssued>>

\* ON DELETE CASCADE: the rows that refer to the deleted row go with it.
Cascade(rows, n) == SelectSeq(rows, LAMBDA m : m.kpi_id # SqlId(n))

\* DELETE FROM kpis WHERE id = n.
DeleteKpi ==
    /\ app = "platform"
    /\ \E n \in 1..MaxKpis :
           /\ req' = [op |-> "sql.delete_kpi", kpi |-> SqlId(n)]
           /\ resp' = SqlResult("none", IF n \in kpis THEN 1 ELSE 0)
           /\ kpis' = kpis \ {n}
           /\ kpi_measurements' =
                  IF n \in kpis
                  THEN Cascade(kpi_measurements, n)
                  ELSE kpi_measurements
    /\ UNCHANGED <<app, enableBiofeedback, jobVars, procVars, simpleVars,
                   platformVars, now, ticks, accepted, kpiIssued>>

NextKpi ==
    \/ InsertKpi
    \/ InsertKpiMeasurement
    \/ DeleteKpi

SpecKpi == InitJobs /\ [][NextKpi]_vars

(***************************************************************************)
(* Shutdown (startServer in the platform's entry file, closePool,          *)
(* closeRedis).  proc.clock counts seconds.  A callback of server.close    *)
(* is kept with the state of the two promises it awaits; pool and redis    *)
(* are the module variables of db/client and db/redis: "closed" is null.   *)
(***************************************************************************)
ForceExitSeconds == 30
ClockStepSeconds == 15

\* A client connects while the server listens, or a connection ends.
ConnectionOpens ==
    /\ proc.exit = "none"
    /\ proc.server = "listening"
    /\ proc.connections < MaxConnections
    /\ proc' = [proc EXCEPT !.connections = @ + 1]
    /\ UNCHANGED <<app, enableBiofeedback, kpiVars, jobVars, simpleVars,
                   platformVars, now, ticks, accepted, req, resp>>

ConnectionEnds ==
    /\ proc.exit = "none"
    /\ proc.connections > 0
    /\ proc' = [proc EXCEPT !.connections = @ - 1]
    /\ UNCHANGED <<app, enableBiofeedback, kpiVars, jobVars, simpleVars,
                   platformVars, now, ticks, accepted, req, resp>>

\* A variant that arms no timer.
ShutdownSignalNoTimer ==
    /\ proc.exit = "none"
    /\ proc.signals < MaxSignals
    /\ proc' = [proc EXCEPT
                    !.signals = @ + 1,
                    !.server = IF @ = "listening" THEN "closing" ELSE @,
                    !.callbacks = Append(@, [st |-> "registered",
                                             pool |-> "none",
                                             redis |-> "none"]),
                    !.log = "starting graceful shutdown"]
    /\ UNCHANGED <<app, enableBiofeedback, kpiVars, jobVars, simpleVars,
                   platformVars, now, ticks, accepted, req, resp>>

\* SIGTERM or SIGINT: shutdown(signal) calls server.close(callback), which
\* stops the server from accepting and keeps the callback for its 'close'
\* event, and arms a timer of 30 seconds.
ShutdownSignal ==
    /\ proc.exit = "none"
    /\ proc.signals < MaxSignals
    /\ proc' = [proc EXCEPT
                    !.signals = @ + 1,
                    !.server = IF @ = "listening" THEN "closing" ELSE @,
                    !.callbacks = Append(@, [st |-> "registered",
                                             pool |-> "none",
                                             redis |-> "none"]),
                    !.timers = @ \cup {proc.clock + ForceExitSeconds},
                    !.log = "starting graceful shutdown"]
    /\ UNCHANGED <<app, enableBiofeedback, kpiVars, jobVars, simpleVars,
                   platformVars, now, ticks, accepted, req, resp>>

\* 'close' is emitted once no connection is left (again for a close() on a
\* server already closed) and the earliest callback not yet run runs up to
\* its await: closePool() and closeRedis() each call end()/quit() when the
\* module variable is set.  A second end() on a pool that is ending is
\* rejected at once, and the catch exits with 1.
CloseCallbackRuns ==
    /\ proc.exit = "none"
    /\ proc.server # "listening"
    /\ proc.connections = 0
    /\ \E i \in 1..Len(proc.callbacks) :
           /\ proc.callbacks[i].st = "registered"
           /\ \A j \in 1..(i - 1) : proc.callbacks[j].st # "registered"
           /\ proc' =
                  [proc EXCEPT
                       !.server = "closed",
                       !.pool = IF @ = "open" THEN "ending" ELSE @,
                       !.redis = IF @ = "open" THEN "quitting" ELSE @,
                       !.callbacks[i] =
                           [st |-> "awaiting",
                            pool |-> IF proc.pool = "closed"
                                     THEN "resolved" ELSE "pending",
                            redis |-> IF proc.redis = "closed"
                                      THEN "resolved" ELSE "pending"],
                       !.exit = IF proc.pool = "ending" THEN "1"
                                ELSE IF proc.pool = "closed"
                                         /\ proc.redis = "closed"
                                THEN "0" ELSE "none",
                       !.log = IF proc.pool = "ending"
                               THEN "Error during shutdown"
                               ELSE IF proc.pool = "closed"
                                        /\ proc.redis = "closed"
                               THEN "Graceful shutdown completed"
                               ELSE "HTTP server closed"]
    /\ UNCHANGED <<app, enableBiofeedback, kpiVars, jobVars, simpleVars,
                   platformVars, now, ticks, accepted, req, resp>>

\* pool.end() settles: closePool sets pool to null and, when closeRedis has
\* resolved too, the callback exits with 0; a rejection exits with 1.
PoolEndSettles ==
    /\ proc.exit = "none"
    /\ \E i \in 1..Len(proc.callbacks), ok \in BOOLEAN :
           /\ proc.callbacks[i].pool = "pending"
           /\ proc' =
                  IF ok
                  THEN [proc EXCEPT
                            !.pool = "closed",
                            !.callbacks[i].pool = "resolved",
                            !.exit = IF proc.callbacks[i].redis = "resolved"
                                     THEN "0" ELSE "none",
                            !.log = IF proc.callbacks[i].redis = "resolved"
                                    THEN "Graceful shutdown completed"
                                    ELSE "Database pool closed"]
                  ELSE [proc EXCEPT !.exit = "1",
                                    !.log = "Error during shutdown"]
    /\ UNCHANGED <<app, enableBiofeedback, kpiVars, jobVars, simpleVars,
                   platformVars, now, ticks, accepted, req, resp>>

\* redisClient.quit() settles, the earliest call first.
RedisQuitSettles ==
    /\ proc.exit = "none"
    /\ \E i \in 1..Len(proc.callbacks), ok \in BOOLEAN :
           /\ proc.callbacks[i].redis = "pending"
           /\ \A j \in 1..(i - 1) : proc.callbacks[j].redis # "pending"
           /\ proc' =
                  IF ok
                  THEN [proc EXCEPT
                            !.redis = "closed",
                            !.callbacks[i].redis = "resolved",
                            !.exit = IF proc.callbacks[i].pool = "resolved"
                                     THEN "0" ELSE "none",
                            !.log = IF proc.callbacks[i].pool = "resolved"
                                    THEN "Graceful shutdown completed"
                                    ELSE "Redis connection closed"]
                  ELSE [proc EXCEPT !.exit = "1",
                                    !.log = "Error during shutdown"]
    /\ UNCHANGED <<app, enableBiofeedback, kpiVars, jobVars, simpleVars,
                   platformVars, now, ticks, accepted, req, resp>>

\* A timer armed by shutdown fires: process.exit(1).
ForceExitTimerFires ==
    /\ proc.exit = "none"
    /\ \E d \in proc.timers : proc.clock >= d
    /\ proc' = [proc EXCEPT !.exit = "1",
                            !.log = "Forced shutdown due to timeout"]
    /\ UNCHANGED <<app, enableBiofeedback, kpiVars, jobVars, simpleVars,
                   platformVars, now, ticks, accepted, req, resp>>

\* Time passes, but not beyond the moment a timer is due.
TimePasses ==
    /\ proc.exit = "none"
    /\ IF proc.timers = {}
       THEN proc.clock < MaxClock
       ELSE \A d \in proc.timers : proc.clock < d
    /\ proc' = [proc EXCEPT !.clock = @ + ClockStepSeconds]
    /\ UNCHANGED <<app, enableBiofeedback, kpiVars, jobVars, simpleVars,
                   platformVars, now, ticks, accepted, req, resp>>

NextShutdown ==
    \/ ConnectionOpens
    \/ ConnectionEnds
    \/ ShutdownSignal
    \/ CloseCallbackRuns
    \/ PoolEndSettles
    \/ RedisQuitSettles
    \/ ForceExitTimerFires
    \/ TimePasses

\* The event loop runs a timer that is due, and time does not stand still.
SpecShutdown ==
    /\ InitJobs
    /\ [][NextShutdown]_vars
    /\ WF_vars(ForceExitTimerFires)
    /\ WF_vars(TimePasses)

Next ==
    \/ Tick
    \/ GetStatus
    \/ GetMeasurements
    \/ PostMeasurement
    \/ GetAnalytics
    \/ \E c \in Callers : ApiPostBiofeedback(c)
    \/ \E c \in Callers : CreateMetricReturns(c)
    \/ ApiGetBiofeedback
    \/ ApiGetBiofeedbackStats

Spec == Init /\ [][Next]_vars

\* The platform with its database jobs; time in minutes.
NextJobs ==
    \/ JobsTick
    \/ ApiPostBiofeedback("c1")
    \/ CreateMetricReturns("c1")
    \/ BatchCreateMetrics
    \/ RetentionPolicyRun
    \/ RefreshPolicyRun
    \/ GetAggregatedMetrics

SpecJobs == InitJobs /\ [][NextJobs]_vars

(***************************************************************************)
(* Properties.  What a request asks for is read off the request itself,    *)
(* in numbers, and compared with what the handler answered.                *)
(***************************************************************************)
SampleTime(m) == FromISOString(m.timestamp)

AllDigits(s) == Len(s) > 0 /\ \A i \in 1..Len(s) : IsDigit(s[i])

\* The request served last got its answer from the SmartFrequency router.
RouterAnswered(op) == app = "simple" /\ enableBiofeedback /\ req.op = op

\* windowMinutes is absent (60 is meant) or a whole number in 1..1440.
ValidWindowRequest(q) ==
    \/ q.windowMinutes.k = "undefined"
    \/ /\ q.windowMinutes.k = "string"
       /\ AllDigits(q.windowMinutes.s)
       /\ ParseDigits(q.windowMinutes.s, 0) > 0
       /\ ParseDigits(q.windowMinutes.s, 0) <= 1440

RequestedWindow(q) ==
    IF q.windowMinutes.k = "undefined"
    THEN 60
    ELSE ParseDigits(q.windowMinutes.s, 0)

FilterGiven(q) == q.signalType.k = "string" /\ Len(q.signalType.s) > 0

\* The positions in the store of the samples a request is about.
Selection(q) ==
    { i \in 1..Len(measurements) :
          /\ SampleTime(measurements[i]) >= now - RequestedWindow(q) * MsPerMinute
          /\ FilterGiven(q) => measurements[i].signalType = q.signalType.s }

SelectedValues(q) == { measurements[i].frequencyHz : i \in Selection(q) }

RECURSIVE FiniteSum(_)
FiniteSum(S) ==
    IF S = {}
    THEN 0
    ELSE LET i == CHOOSE j \in S : TRUE
         IN  measurements[i].frequencyHz + FiniteSum(S \ {i})

\* r is the mean of the selected values rounded to 3 decimals, a half going
\* away from zero: a multiple of 0.001 at most 0.0005 from the mean.
IsRoundedMean(r, S) ==
    IF \E i \in S : measurements[i].frequencyHz = Infinity
    THEN r = Infinity
    ELSE /\ r % UnitsPerMilli = 0
         /\ (2 * r - UnitsPerMilli) * Cardinality(S) <= 2 * FiniteSum(S)
         /\ 2 * FiniteSum(S) < (2 * r + UnitsPerMilli) * Cardinality(S)

\* C1: for a valid window and a non-empty selection, the answer has
\* minHz <= averageHz <= maxHz, averageHz being the rounded mean.
C1_MinAvgMax ==
    (RouterAnswered("analytics") /\ ValidWindowRequest(req)
        /\ Selection(req) # {})
    => /\ resp.status = 200
       /\ resp.minHz <= resp.averageHz
       /\ resp.averageHz <= resp.maxHz

\* C2: when no stored sample satisfies the window and the filter, the answer
\* is 200 with averageHz, minHz, maxHz and sampleCount all 0.
C2_EmptyWindowZeros ==
    (RouterAnswered("analytics") /\ ValidWindowRequest(req)
        /\ Selection(req) = {})
    => /\ resp.status = 200
       /\ resp.averageHz = 0
       /\ resp.minHz = 0
       /\ resp.maxHz = 0
       /\ resp.sampleCount = 0

\* An empty selection over a store that holds samples.
C2_Witness ==
    /\ RouterAnswered("analytics")
    /\ ValidWindowRequest(req)
    /\ Selection(req) = {}
    /\ Len(measurements) > 0
    /\ resp.status = 200

\* C3: for a non-empty selection, sampleCount is the number of selected
\* samples, minHz and maxHz their smallest and largest value, and averageHz
\* their mean rounded to 3 decimals, a half going away from zero.
C3_ExactStats ==
    (RouterAnswered("analytics") /\ ValidWindowRequest(req)
        /\ Selection(req) # {})
    => /\ resp.status = 200
       /\ resp.sampleCount = Cardinality(Selection(req))
       /\ resp.minHz \in SelectedValues(req)
       /\ \A v \in SelectedValues(req) : resp.minHz <= v /\ v <= resp.maxHz
       /\ resp.maxHz \in SelectedValues(req)
       /\ IsRoundedMean(resp.averageHz, Selection(req))

\* Two samples whose mean lies halfway between two multiples of 0.001 and
\* is rounded to the upper one.
C3_Witness ==
    /\ RouterAnswered("analytics")
    /\ ValidWindowRequest(req)
    /\ Cardinality(Selection(req)) = 2
    /\ resp.status = 200
    /\ IsFinite(resp.maxHz)
    /\ (2 * resp.averageHz - UnitsPerMilli) * 2 = 2 * FiniteSum(Selection(req))

\* C4: the samples that count are exactly those with a timestamp at or
\* after now - windowMinutes and, under a filter, of the filter's signal
\* type, wherever they stand in the store.
C4_ExactSelection ==
    (RouterAnswered("analytics") /\ ValidWindowRequest(req))
    => /\ resp.status = 200
       /\ resp.sampleCount = Cardinality(Selection(req))
       /\ \A i \in 1..Len(measurements) :
              i \in Selection(req)
              <=> InWindow(measurements[i], Cutoff(resp.windowMinutes),
                           AnalyticsSignalType(req))
       /\ Selection(req) # {}
              => resp.minHz \in SelectedValues(req)
                 /\ resp.maxHz \in SelectedValues(req)

\* A filtered request that counts a sample as old as the cutoff and leaves
\* out an older one and one of another signal type.
C4_Witness ==
    /\ RouterAnswered("analytics")
    /\ ValidWindowRequest(req)
    /\ FilterGiven(req)
    /\ resp.status = 200
    /\ \E i \in Selection(req) :
           SampleTime(measurements[i]) = now - RequestedWindow(req) * MsPerMinute
    /\ \E i \in 1..Len(measurements) :
           \/ SampleTime(measurements[i]) < now - RequestedWindow(req) * MsPerMinute
           \/ measurements[i].signalType # req.signalType.s

\* The text is a decimal number: digits, or digits, a point and digits,
\* after an optional minus sign.
Unsigned(s) == IF Len(s) > 0 /\ Head(s) = "-" THEN Tail(s) ELSE s
PointAt(s) == { i \in 1..Len(s) : s[i] = "." }
WholePart(s) ==
    IF PointAt(s) = {}
    THEN s
    ELSE SubSeq(s, 1, (CHOOSE i \in PointAt(s) : TRUE) - 1)
FractionPart(s) ==
    IF PointAt(s) = {}
    THEN <<>>
    ELSE SubSeq(s, (CHOOSE i \in PointAt(s) : TRUE) + 1, Len(s))

IsNumberText(s) ==
    /\ Cardinality(PointAt(Unsigned(s))) <= 1
    /\ AllDigits(WholePart(Unsigned(s)))
    /\ PointAt(Unsigned(s)) # {} => AllDigits(FractionPart(Unsigned(s)))

FractionIsZero(s) == \A i \in 1..Len(FractionPart(s)) : FractionPart(s)[i] = "0"

\* The number the text writes lies in 0 < n <= 1440.
NumberInRange(s) ==
    /\ Unsigned(s) = s
    /\ ParseDigits(WholePart(s), 0) > 0 \/ ~FractionIsZero(s)
    /\ \/ ParseDigits(WholePart(s), 0) < 1440
       \/ ParseDigits(WholePart(s), 0) = 1440 /\ FractionIsZero(s)

\* C5: a request is rejected with 400 exactly when the windowMinutes it
\* supplies is not a number or lies outside 0 < windowMinutes <= 1440.
C5_RejectedExactly ==
    (RouterAnswered("analytics") /\ req.windowMinutes.k = "string")
    => (resp.status = 400
        <=> ~(IsNumberText(req.windowMinutes.s)
              /\ NumberInRange(req.windowMinutes.s)))

\* A field of a body that is a string with a character other than space.
NonBlank(j) == j.k = "string" /\ \E i \in 1..Len(j.s) : ~IsWhitespace(j.s[i])

LastMeasurement == measurements[Len(measurements)]

\* C6: a body with a negative frequencyHz is rejected with 400; a body with
\* frequencyHz 0 and a valid userId and signalType is answered 201 and its
\* sample is stored.
C6_NegativeRejectedZeroAccepted ==
    (RouterAnswered("ingest") /\ req.frequencyHz.k = "number"
        /\ NonBlank(req.userId) /\ NonBlank(req.signalType))
    => /\ req.frequencyHz.n < 0 => resp.status = 400
       /\ req.frequencyHz.n = 0
              => /\ resp.status = 201
                 /\ Len(measurements) > 0
                 /\ LastMeasurement.frequencyHz = 0
                 /\ LastMeasurement.userId = req.userId.s
                 /\ LastMeasurement.signalType = req.signalType.s

\* A negative value is rejected while the store holds a sample of value 0.
C6_Witness ==
    /\ RouterAnswered("ingest")
    /\ req.frequencyHz.k = "number"
    /\ req.frequencyHz.n < 0
    /\ resp.status = 400
    /\ \E i \in 1..Len(measurements) : measurements[i].frequencyHz = 0

IngestOps == {"ingest", "api.ingest"}

C8_RoundTrip ==
    [][ (/\ app = "simple" /\ enableBiofeedback
         /\ req.op = "ingest" /\ resp.status = 201
         /\ IsFinite(req.frequencyHz.n)
         /\ req'.op = "list"
         /\ req'.userId.k = "undefined" \/ req'.userId.s = req.userId.s
         /\ req'.signalType.k = "undefined"
                \/ req'.signalType.s = req.signalType.s)
        => /\ resp'.status = 200
           /\ resp'.total = Len(resp'.measurements)
           /\ resp'.total > 0
           /\ resp'.measurements[resp'.total].userId = req.userId.s
           /\ resp'.measurements[resp'.total].signalType = req.signalType.s
           /\ resp'.measurements[resp'.total].frequencyHz = req.frequencyHz.n
           /\ resp'.measurements[resp'.total].metadata =
                  (IF req.metadata.k = "object" THEN req.metadata ELSE EmptyObject)
           /\ \A i \in 1..resp'.total :
                  /\ req'.userId.k = "undefined"
                         \/ resp'.measurements[i].userId = req'.userId.s
                  /\ req'.signalType.k = "undefined"
                         \/ resp'.measurements[i].signalType = req'.signalType.s
       ]_vars

\* A list filtered by userId and signalType returns a sample with metadata.
C8_Witness ==
    /\ RouterAnswered("list")
    /\ req.userId.k = "string"
    /\ req.signalType.k = "string"
    /\ resp.total > 0
    /\ resp.measurements[resp.total].metadata = JObj(M1)
    /\ resp.measurements[resp.total] = LastMeasurement

FeatureOps == {"ingest", "list", "analytics", "status"}
ApiFeatureOps == {"api.ingest", "api.list", "api.stats"}

\* C9: with the feature disabled, every ingest, list, analytics and status
\* request (on the platform: every ingest, list and stats request of an
\* authenticated caller) is answered 503 without touching a store, and no
\* step changes a store.
C9_DisabledAnswers503 ==
    [][ ~enableBiofeedback
        => /\ measurements' = measurements
           /\ biofeedback_metrics' = biofeedback_metrics
           /\ req'.op \in FeatureOps
                  => resp'.status = 503 /\ ~resp'.accessed
           /\ (req'.op \in ApiFeatureOps /\ Authenticate(req'.authorization).next)
                  => resp'.status = 503 /\ ~resp'.accessed ]_vars

\* A body the router would accept is answered 503.
C9_Witness ==
    /\ ~enableBiofeedback
    /\ req \in AcceptedBodies
    /\ resp.status = 503
    /\ measurements = <<>>

\* C10: the store holds one sample per ingest request answered 201, and no
\* two rows of the table have the same id, however the calls of the callers
\* interleave.
C10_NoLostOrDuplicatedWrites ==
    /\ app = "simple" => Len(measurements) = accepted
    /\ app = "platform" => Len(biofeedback_metrics) = accepted
    /\ \A i, j \in 1..Len(biofeedback_metrics) :
           i # j => biofeedback_metrics[i].id # biofeedback_metrics[j].id

\* A call that started later has stored its row while an earlier call of
\* another caller is still waiting for the database.
C10_Witness ==
    \E c \in Callers :
        /\ calls[c].pc = "query"
        /\ \E i \in 1..Len(biofeedback_metrics) :
               biofeedback_metrics[i].id > calls[c].row.id

(***************************************************************************)
(* Retention.                                                              *)
(***************************************************************************)
Horizon == RetentionDays * MinutesPerDay
ChunkInterval == ChunkDays * MinutesPerDay

\* The rows of a table, as a set.
RowsOf(table) == { table[i] : i \in 1..Len(table) }

\* Every row that was inside the horizon before the step is there after it.
InHorizonRowsKept ==
    \A r \in RowsOf(biofeedback_metrics) :
        r.timestamp >= now - Horizon => r \in RowsOf(biofeedback_metrics')

C12_RetentionCommutesWithInserts ==
    [][ /\ InHorizonRowsKept
        /\ (req'.op = "api.ingest" /\ resp'.status = 201 /\ resp' # resp)
               => resp'.metric \in RowsOf(biofeedback_metrics') ]_vars

\* The job has run and removed a row while an INSERT of a row inside the
\* horizon is under way.
C12_Witness ==
    /\ req = JobRequest("job.retention")
    /\ calls["c1"].pc = "query"
    /\ calls["c1"].row.timestamp >= now - Horizon
    /\ accepted > Len(biofeedback_metrics)

(***************************************************************************)
(* The continuous aggregate.                                               *)
(***************************************************************************)
BucketKey(a) ==
    [user_id |-> a.user_id, metric_type |-> a.metric_type, bucket |-> a.bucket]

UniqueBucketKeys(aggs) ==
    \A i, j \in 1..Len(aggs) : i # j => BucketKey(aggs[i]) # BucketKey(aggs[j])

\* C13: a refresh that follows a refresh at the same time, with the raw rows
\* as they were, leaves every materialized row as it was; and no two
\* materialized rows have the same user, metric type and bucket.
C13_RefreshIdempotent ==
    [][ /\ (req = JobRequest("job.refresh") /\ req' = req
               /\ biofeedback_metrics' = biofeedback_metrics)
            => biofeedback_5min_avg' = biofeedback_5min_avg
        /\ UniqueBucketKeys(biofeedback_5min_avg') ]_vars

\* The job has run twice in a row over a window that holds a materialized
\* bucket.
C13_Witness ==
    /\ req = JobRequest("job.refresh")
    /\ resp.kind = "job"
    /\ resp.again
    /\ \E i \in 1..Len(biofeedback_5min_avg) :
           InRefreshWindow(biofeedback_5min_avg[i].bucket, now)

\* The raw rows of a user and metric type with timestamp in
\* [bucket, bucket + 5 minutes).
SamplesOfBucket(a) ==
    { i \in 1..Len(biofeedback_metrics) :
        /\ biofeedback_metrics[i].user_id = a.user_id
        /\ biofeedback_metrics[i].metric_type = a.metric_type
        /\ a.bucket <= biofeedback_metrics[i].timestamp
        /\ biofeedback_metrics[i].timestamp < a.bucket + BucketMinutes }

RECURSIVE RawSum(_)
RawSum(S) ==
    IF S = {}
    THEN 0
    ELSE LET i == CHOOSE x \in S : TRUE
         IN  biofeedback_metrics[i].value + RawSum(S \ {i})

\* The statistics of a materialized row are those of its raw samples.
MatchesSamples(a) ==
    LET S == SamplesOfBucket(a)
    IN  /\ S # {}
        /\ a.sample_count = Cardinality(S)
        /\ a.avg_value.den > 0
        /\ a.avg_value.num * Cardinality(S) = RawSum(S) * a.avg_value.den
        /\ \E i \in S : biofeedback_metrics[i].value = a.min_value
        /\ \E i \in S : biofeedback_metrics[i].value = a.max_value
        /\ \A i \in S : /\ a.min_value <= biofeedback_metrics[i].value
                        /\ biofeedback_metrics[i].value <= a.max_value

\* C14: after a refresh at time now, every materialized bucket whose start
\* lies between now - start_offset and now - end_offset has the count, mean,
\* minimum and maximum of exactly the raw rows of its user and metric type
\* with timestamp in [bucket, bucket + 5 minutes); and every raw row whose
\* bucket lies wholly in that window has its materialized bucket.
C14_BucketsMatchSamples ==
    req = JobRequest("job.refresh")
    => /\ \A k \in 1..Len(biofeedback_5min_avg) :
              (/\ biofeedback_5min_avg[k].bucket >= now - StartOffsetMinutes
               /\ biofeedback_5min_avg[k].bucket <= now - EndOffsetMinutes)
              => MatchesSamples(biofeedback_5min_avg[k])
       /\ \A i \in 1..Len(biofeedback_metrics) :
              LET b == (biofeedback_metrics[i].timestamp \div BucketMinutes)
                           * BucketMinutes
              IN  (b >= now - StartOffsetMinutes
                      /\ b + BucketMinutes <= now - EndOffsetMinutes)
                  => \E k \in 1..Len(biofeedback_5min_avg) :
                         /\ biofeedback_5min_avg[k].bucket = b
                         /\ biofeedback_5min_avg[k].user_id
                                = biofeedback_metrics[i].user_id
                         /\ biofeedback_5min_avg[k].metric_type
                                = biofeedback_metrics[i].metric_type

\* A refreshed bucket of two samples with different values, one of them
\* replayed with the timestamp of an earlier time.
C14_Witness ==
    /\ req = JobRequest("job.refresh")
    /\ \E k \in 1..Len(biofeedback_5min_avg) :
           /\ InRefreshWindow(biofeedback_5min_avg[k].bucket, now)
           /\ biofeedback_5min_avg[k].sample_count = 2
           /\ biofeedback_5min_avg[k].min_value < biofeedback_5min_avg[k].max_value

\* C16: no step changes a materialized bucket that starts before
\* now - start_offset: a refresh leaves it as it is even when a raw sample with
\* a timestamp inside it arrived after it was materialized.
C16_OldBucketsUntouched ==
    [][ \A a \in RowsOf(biofeedback_5min_avg) \cup RowsOf(biofeedback_5min_avg') :
            a.bucket < now - StartOffsetMinutes
            => (a \in RowsOf(biofeedback_5min_avg)
                    <=> a \in RowsOf(biofeedback_5min_avg')) ]_vars

\* A refresh has run and a bucket older than the window no longer matches its
\* raw samples, because a sample was replayed into it.
C16_Witness ==
    /\ req = JobRequest("job.refresh")
    /\ resp.kind = "job"
    /\ \E k \in 1..Len(biofeedback_5min_avg) :
           /\ biofeedback_5min_avg[k].bucket < now - StartOffsetMinutes
           /\ SamplesOfBucket(biofeedback_5min_avg[k]) # {}
           /\ ~MatchesSamples(biofeedback_5min_avg[k])

\* A sample the table can hold on its own.
SampleIsValid(metric) ==
    metric.value.k = "number" /\ IsFinite(metric.value.n)

\* C17: when the store answers a batch, every sample of the batch that is
\* valid is in the table afterwards whatever the other samples are, and the
\* call returns the number of samples it added (0 for an empty batch).
C17_BatchPerSample ==
    (req.op = "batch" /\ ~(resp.kind = "throws" /\ resp.cause = "unavailable"))
    => /\ \A k \in 1..Len(req.metrics) :
              SampleIsValid(req.metrics[k])
              => \E i \in 1..Len(biofeedback_metrics) :
                     /\ biofeedback_metrics[i].user_id = req.metrics[k].userId
                     /\ biofeedback_metrics[i].metric_type
                            = req.metrics[k].metricType
                     /\ biofeedback_metrics[i].value
                            = Numeric10_2(req.metrics[k].value.n)
       /\ resp.kind = "count"
       /\ resp.count = Cardinality({ k \in 1..Len(req.metrics) :
                                        SampleIsValid(req.metrics[k]) })

\* C18: a batch with more samples than the cap is refused with a validation
\* error and none of its samples is stored.  The code names no cap; the
\* largest batch submitted stands for a batch above it, and any error the
\* call throws is taken for the validation error.
C18_BatchAboveCapRefused ==
    [][ (req'.op = "batch" /\ uuids' # uuids /\ Len(req'.metrics) >= MaxBatch)
        => /\ biofeedback_metrics' = biofeedback_metrics
           /\ resp'.kind = "throws" ]_vars

\* A field of a body that is absent, the empty string or only whitespace.
Absent(j) ==
    \/ j.k = "undefined"
    \/ j.k = "string" /\ \A i \in 1..Len(j.s) : IsWhitespace(j.s[i])

\* C19: an ingest request whose userId or signalType is missing, empty or
\* only whitespace (the other being a string or missing) is answered 400 with
\* the message that the fields are required; one with both non-blank and a
\* non-negative number as value is answered 201 and stored under these names.
C19_BlankNamesRejected ==
    RouterAnswered("ingest")
    => /\ (/\ Absent(req.userId) \/ Absent(req.signalType)
           /\ Absent(req.userId) \/ NonBlank(req.userId)
           /\ Absent(req.signalType) \/ NonBlank(req.signalType))
          => /\ resp.status = 400
             /\ resp.error = "userId, frequencyHz and signalType are required"
       /\ (/\ NonBlank(req.userId) /\ NonBlank(req.signalType)
           /\ req.frequencyHz.k = "number" /\ req.frequencyHz.n >= 0)
          => /\ resp.status = 201
             /\ resp.measurement.userId = req.userId.s
             /\ resp.measurement.signalType = req.signalType.s
             /\ resp.measurement = LastMeasurement

\* A body whose signalType is only whitespace is refused while the store
\* holds a sample.
C19_Witness ==
    /\ RouterAnswered("ingest")
    /\ NonBlank(req.userId)
    /\ req.signalType = JStr(Blank)
    /\ resp.status = 400
    /\ Len(measurements) > 0

\* A value of a body that is a finite number.
FiniteNumber(j) == j.k = "number" /\ IsFinite(j.n)

\* C20: every value in either store is finite, and an ingest request that
\* passes the other checks and whose value is not a finite number is
\* answered 400.
C20_NonFiniteRejected ==
    /\ \A i \in 1..Len(measurements) : IsFinite(measurements[i].frequencyHz)
    /\ \A i \in 1..Len(biofeedback_metrics) :
           IsFinite(biofeedback_metrics[i].value)
    /\ (RouterAnswered("ingest") /\ NonBlank(req.userId)
            /\ NonBlank(req.signalType) /\ ~FiniteNumber(req.frequencyHz))
       => resp.status = 400
    /\ (app = "platform" /\ enableBiofeedback /\ req.op = "api.ingest"
            /\ Authenticate(req.authorization).next
            /\ req.metricType.k = "string" /\ req.metricType.s \in validTypes
            /\ ~FiniteNumber(req.value))
       => resp.status = 400

\* C21: an accepted ingest stores the sample with the timestamp the caller
\* supplied when there is one and with the server's time otherwise; so does
\* every sample of a batch that was written.
C21_TimestampAsSupplied ==
    /\ (RouterAnswered("ingest") /\ resp.status = 201)
       => /\ resp.measurement = LastMeasurement
          /\ LastMeasurement.timestamp =
                 (IF req.timestamp.k = "string"
                  THEN req.timestamp.s
                  ELSE ToISOString(now))
    /\ (req.op = "batch" /\ resp.kind = "count")
       => \A k \in 1..Len(req.metrics) :
              \E i \in 1..Len(biofeedback_metrics) :
                  /\ biofeedback_metrics[i].user_id = req.metrics[k].userId
                  /\ biofeedback_metrics[i].timestamp =
                         (IF req.metrics[k].timestamp.k = "number"
                          THEN req.metrics[k].timestamp.n
                          ELSE now)

\* C22: a series call returns only buckets of the entity and signal type it
\* asked for, in strictly descending order of bucket, and the statement
\* bounds their number by the caller's limit when one is given, by 100 when
\* none is, and never by more than 100.
C22_SeriesBounded ==
    (req.op = "series" /\ resp.kind = "series")
    => /\ \A k \in 1..Len(resp.rows) :
              \E i \in 1..Len(biofeedback_5min_avg) :
                  /\ biofeedback_5min_avg[i].user_id = req.userId
                  /\ biofeedback_5min_avg[i].metric_type = req.metricType
                  /\ biofeedback_5min_avg[i].bucket = resp.rows[k].bucket
       /\ \A k \in 1..(Len(resp.rows) - 1) :
              resp.rows[k].bucket > resp.rows[k + 1].bucket
       /\ Len(resp.rows) <= resp.limit
       /\ resp.limit = (IF req.limit.k = "number"
                        THEN Min2(req.limit.n, 100)
                        ELSE 100)

\* C22 as the code has it: the buckets returned are of the entity and signal
\* type asked for, in strictly descending order of bucket, and the statement
\* bounds their number by the caller's limit when one is given and by 100
\* when none is; a limit above 100 is passed on as it is.
C22_SeriesBoundedByCallersLimit ==
    (req.op = "series" /\ resp.kind = "series")
    => /\ \A k \in 1..Len(resp.rows) :
              \E i \in 1..Len(biofeedback_5min_avg) :
                  /\ biofeedback_5min_avg[i].user_id = req.userId
                  /\ biofeedback_5min_avg[i].metric_type = req.metricType
                  /\ biofeedback_5min_avg[i].bucket = resp.rows[k].bucket
       /\ \A k \in 1..(Len(resp.rows) - 1) :
              resp.rows[k].bucket > resp.rows[k + 1].bucket
       /\ Len(resp.rows) <= resp.limit
       /\ resp.limit = (IF req.limit.k = "number" THEN req.limit.n ELSE 100)

\* A call with a limit of 1 returns the latest of several buckets.
C22_Witness ==
    /\ req.op = "series"
    /\ resp.kind = "series"
    /\ req.limit = JNum(1)
    /\ Len(resp.rows) = 1
    /\ \E i \in 1..Len(biofeedback_5min_avg) :
           /\ biofeedback_5min_avg[i].user_id = req.userId
           /\ biofeedback_5min_avg[i].metric_type = req.metricType
           /\ biofeedback_5min_avg[i].bucket < resp.rows[1].bucket

\* C23: a stats request answered for a range with no sample of the entity
\* and signal type returns count, avg, min, max and stddev all 0.
C23_EmptyRangeAllZero ==
    (req.op = "api.stats" /\ resp.status = 200 /\ resp.stats.count = 0)
    => /\ resp.stats.avg = JNum(0)
       /\ resp.stats.min = JNum(0)
       /\ resp.stats.max = JNum(0)
       /\ resp.stats.stddev = JNum(0)

IdsOf(table) == { table[i].id : i \in 1..Len(table) }

\* C24: in every step, a row of the sample table after the step is a row that
\* was there before, unchanged, or a row with a new id added by an ingest
\* (single or batch); a row is missing after the step only when the step is a
\* retention run; the aggregate changes only in a refresh; and the in-memory
\* store changes only by an accepted ingest appending the sample it answers
\* with.
C24_SamplesImmutable ==
    [][ /\ \A r \in RowsOf(biofeedback_metrics') :
               \/ r \in RowsOf(biofeedback_metrics)
               \/ /\ req'.op \in {"api.ingest", "batch"}
                  /\ r.id \notin IdsOf(biofeedback_metrics)
        /\ \A r \in RowsOf(biofeedback_metrics) :
               \/ r \in RowsOf(biofeedback_metrics')
               \/ req'.op = "job.retention"
        /\ (req'.op = "api.ingest" /\ resp'.status = 201 /\ resp' # resp)
               => /\ resp'.metric \in RowsOf(biofeedback_metrics')
                  /\ resp'.metric.metric_type = req'.metricType.s
                  /\ resp'.metric.user_id
                         = Authenticate(req'.authorization).user.userId
                  /\ resp'.metric.value = Numeric10_2(req'.value.n)
        /\ biofeedback_5min_avg' # biofeedback_5min_avg
               => req'.op = "job.refresh"
        /\ measurements' # measurements
               => /\ req'.op = "ingest"
                  /\ resp'.status = 201
                  /\ measurements' = Append(measurements, resp'.measurement)
      ]_vars

\* A retention run has removed one ingested row and kept another.
C24_Witness ==
    /\ req = JobRequest("job.retention")
    /\ resp.kind = "job"
    /\ Len(biofeedback_metrics) > 0
    /\ accepted > Len(biofeedback_metrics)

\* The measurements that refer to the definition n.
MeasurementsOf(rows, n) ==
    SelectSeq(rows, LAMBDA m : m.kpi_id = SqlId(n))

\* C25: after every step each row of kpi_measurements refers to a row of
\* kpis; and a step that deletes a definition leaves none of its measurements
\* and leaves the measurements of every other definition as they were.
C25_MeasurementsReferToKpis ==
    [][ /\ \A i \in 1..Len(kpi_measurements') :
               /\ ~kpi_measurements'[i].kpi_id.null
               /\ kpi_measurements'[i].kpi_id.id \in kpis'
        /\ req'.op = "sql.delete_kpi"
               => /\ MeasurementsOf(kpi_measurements', req'.kpi.id) = <<>>
                  /\ \A n \in (1..MaxKpis) \ {req'.kpi.id} :
                         MeasurementsOf(kpi_measurements', n)
                             = MeasurementsOf(kpi_measurements, n) ]_vars

ApiReadOps == {"api.list", "api.stats"}

\* C26: a step in which a query of the store fails answers 500, leaves both
\* stores as they were and issues no further identifier; the call it belongs
\* to is over, with no second attempt under way, and the calls of the other
\* callers go on.
C26_StoreFailureNoRetry ==
    [][ (resp' = QueryFailed /\ (resp' # resp \/ req' # req))
        => /\ resp'.status = 500
           /\ biofeedback_metrics' = biofeedback_metrics
           /\ measurements' = measurements
           /\ uuids' = uuids
           /\ accepted' = accepted
           /\ req'.op \in ApiReadOps => calls' = calls
           /\ req'.op = "api.ingest"
                  => \E c \in Callers :
                         /\ calls[c].pc = "query"
                         /\ calls[c].request = req'
                         /\ calls' = [calls EXCEPT ![c] = Idle] ]_vars

\* An ingest is answered 201 after an earlier one has failed: an identifier
\* was issued to a call that stored nothing, and no call is under way.
C26_Witness ==
    /\ req.op = "api.ingest"
    /\ resp.status = 201
    /\ \A c \in Callers : calls[c].pc = "idle"
    /\ uuids > accepted
    /\ Len(biofeedback_metrics) = accepted

\* A header of the form 'Bearer <token>' whose token verifies.
BearerVerifies(parts) ==
    /\ Len(parts) = 2
    /\ parts[1] = "Bearer"
    /\ parts[2] # ""
    /\ JwtVerify(parts[2]).outcome = "payload"

GivenNumber(j) ==
    IF j.k = "string" /\ ~ParseInt(j.s).nan THEN ParseInt(j.s).n ELSE 0

\* C29: whatever page and limit a request gives, the page answered has
\* page >= 1, 1 <= limit <= 100 and offset = (page - 1) * limit; a positive
\* page or a limit within 1..100 is taken as given; hasPrev is true exactly
\* when page > 1 and hasNext exactly when page < ceil(total / limit), that
\* is, when rows remain after this page.
C29_PaginationBounds ==
    (req.op = "api.users" /\ resp.status = 200)
    => LET pg == resp.pagination
       IN  /\ pg.page >= 1
           /\ pg.limit >= 1 /\ pg.limit <= 100
           /\ resp.offset = (pg.page - 1) * pg.limit
           /\ GivenNumber(req.page) >= 1 => pg.page = GivenNumber(req.page)
           /\ (GivenNumber(req.limit) >= 1 /\ GivenNumber(req.limit) <= 100)
                  => pg.limit = GivenNumber(req.limit)
           /\ pg.hasPrev <=> pg.page > 1
           /\ pg.hasNext <=> pg.page * pg.limit < pg.total
           /\ (pg.totalPages - 1) * pg.limit < pg.total \/ pg.total = 0
           /\ pg.totalPages * pg.limit >= pg.total
           /\ resp.data <= pg.limit

\* The second of three pages: rows before it and after it.
C29_Witness ==
    /\ req.op = "api.users"
    /\ resp.status = 200
    /\ req.page = JStr(<<"2">>)
    /\ resp.pagination.totalPages = 3
    /\ resp.pagination.hasNext
    /\ resp.pagination.hasPrev

SimpleReadOps == {"list", "analytics", "status"}

\* C28: the measurementCount a status request reports is the number of
\* ingest requests answered 201 since the start; the number of measurements
\* never decreases, and a step that serves a list, analytics or status
\* request leaves the measurements as they were.
C28_CountIsAcceptedIngests ==
    [][ /\ (req'.op = "status" /\ resp'.status = 200)
               => resp'.measurementCount = accepted'
        /\ Len(measurements') >= Len(measurements)
        /\ accepted' >= accepted
        /\ req'.op \in SimpleReadOps => measurements' = measurements ]_vars

\* The status reports two measurements after two accepted ingests.
C28_Witness ==
    /\ RouterAnswered("status")
    /\ resp.status = 200
    /\ resp.measurementCount >= 2
    /\ resp.measurementCount = accepted

\* C30: once a signal has arrived the process exits; it has exited with 0
\* only with the server closed, no connection left and the pool and the
\* Redis client closed; it has exited with 1 only because closing failed or
\* a timer of 30 seconds was due; also with a second signal.
C30_ShutdownExits ==
    /\ [](proc.exit = "0"
            => /\ proc.server = "closed"
               /\ proc.connections = 0
               /\ proc.pool = "closed"
               /\ proc.redis = "closed"
               /\ proc.log = "Graceful shutdown completed")
    /\ [](proc.exit = "1"
            => \/ proc.log = "Error during shutdown"
               \/ /\ proc.log = "Forced shutdown due to timeout"
                  /\ \E d \in proc.timers : proc.clock >= d)
    /\ [](proc.exit # "none" => proc.signals > 0)
    /\ (proc.signals > 0) ~> (proc.exit # "none")

\* A second signal arrived while the pool was ending: the process has exited
\* with 1 before any timer was due.
C30_Witness ==
    /\ proc.signals = 2
    /\ proc.exit = "1"
    /\ proc.pool = "ending"
    /\ proc.log = "Error during shutdown"
    /\ \A d \in proc.timers : proc.clock < d

====
